---- MODULE Spec2Model ----
(***************************************************************************)
(* QBFT consensus engine of the SSV node: the controller (lifecycle,       *)
(* StartInstance, OnFork), the instance state machine (proposal, prepare,  *)
(* commit pipelines, commit aggregation) and a four-operator committee.    *)
(***************************************************************************)
EXTENDS Integers, Sequences, FiniteSets, TLC

(***************************************************************************)
(* Bounds of the model.                                                    *)
(***************************************************************************)
\* heights a caller may pass to StartInstance: 0..MaxHeight
MaxHeight == 2

Heights == 0..MaxHeight

\* the nil *SignedMessage returned by highestKnownDecided on an empty store
NoHeight == 0 - 1

Max(S) == CHOOSE x \in S : \A y \in S : y <= x

(***************************************************************************)
(* Controller: protocol/v1/qbft/controller/controller.go                   *)
(***************************************************************************)
\* set of states for the controller (const block, iota)
NotStarted == "notStarted"
InitiatedHandlers == "initiatedHandlers"
SyncedChangeRound == "syncedChangedRound"
WaitingForPeers == "waitingForPeers"
FoundPeers == "foundPeers"
Ready == "ready"
Forking == "forking"

ControllerStates ==
    {NotStarted, InitiatedHandlers, SyncedChangeRound, WaitingForPeers,
     FoundPeers, Ready, Forking}

\* stateStringMap: the name printed in the "hasn't initialized" error
stateStringMap(s) == s

\* goroutines calling StartInstance (one duty execution each) and Init
Starters == {"s1", "s2"}
Initers == {"i1", "i2"}

NoInstance == "nil"

\* errors
ErrNil == "nil"
ErrAlreadyRunning == "already running"
ErrForking == "forking in progress"
ErrSeqInvalid == "instance seq invalid"
ErrNoPeers == "could not find peers"
ErrSync == "could not sync history"
ErrFetchDecided == "could not fetch decided msg after instance finished"
ErrNoAggregated == "could not get aggregated commit msg and save to storage"
ErrNotInitialized(s) ==
    CASE s = NotStarted -> "controller hasn't initialized yet. current state - notStarted"
      [] s = InitiatedHandlers -> "controller hasn't initialized yet. current state - initiatedHandlers"
      [] s = SyncedChangeRound -> "controller hasn't initialized yet. current state - syncedChangedRound"
      [] s = WaitingForPeers -> "controller hasn't initialized yet. current state - waitingForPeers"
      [] s = FoundPeers -> "controller hasn't initialized yet. current state - foundPeers"
      [] OTHER -> "controller hasn't initialized yet. current state - "
ErrStillRunning(h) ==
    CASE h = 0 -> "current instance (0) is still running"
      [] h = 1 -> "current instance (1) is still running"
      [] h = 2 -> "current instance (2) is still running"
      [] h = 3 -> "current instance (3) is still running"
      [] OTHER -> "current instance (n) is still running"

VARIABLES
    State,            \* Controller.State (uint32, accessed atomically)
    height,           \* Controller.height
    currentInstance,  \* Controller.currentInstance: the starter owning it, or nil
    decidedStore,     \* heights with a decided certificate in decided storage
    instStage,        \* stage of the instance created by each StartInstance call
    instHeight,       \* State.Height of that instance
    stageChan,        \* the instance's stage channel (pending stage signals)
    sPc,              \* position of each StartInstance call
    sHeight,          \* opts.Height of each StartInstance call
    sRes,             \* res returned: "nil" or "decided"
    sErr,             \* err returned
    iPc,              \* position of each Init call
    iKnown,           \* setInitialHeight's local `height`
    iErr,             \* err returned by Init
    iConcurrent,      \* whether another Init call was in progress when this one began
    Q,                \* Controller.Q: the indices of the messages in the message queue
    fPc,              \* position of the OnFork call
    handledDecided,   \* indices of the decided messages handed to the message handler
    forkQueued        \* the decided messages that were in the queue when OnFork was called

ctrlVars ==
    <<State, height, currentInstance, decidedStore, instStage, instHeight,
      stageChan, sPc, sHeight, sRes, sErr, iPc, iKnown, iErr, iConcurrent, Q, fPc,
      handledDecided, forkQueued>>

VARIABLES
    Round,                            \* State.Round of the instance
    ProposalAcceptedForCurrentRound,  \* State.ProposalAcceptedForCurrentRound
    PreparedRound,                    \* State.PreparedRound
    PreparedValue,                    \* State.PreparedValue
    Stage,                            \* State.Stage (RoundState)
    ContainersMap,                    \* Instance.ContainersMap: type -> messages in insertion order
    processCommitQuorumOnce,          \* Instance.processCommitQuorumOnce has fired
    decidedMsg,                       \* Instance.decidedMsg
    decidedSignals,                   \* number of ProcessStageChange(RoundStateDecided) calls
    pipelinePc,                       \* message each delivering goroutine carries between pipeline steps
    proposalInputs,                   \* which proposals the environment delivers: "none", "few", "all"
    commitInputs,                     \* which commits the environment delivers: "none", "few", "all"
    proposalErr,                      \* the error ProposalMsgPipeline last returned to each goroutine
    prepareErr,                       \* the error PrepareMsgPipeline last returned to each goroutine
    prepareSent                       \* the PREPARE messages UponProposalMsg has broadcast, in order

instVars ==
    <<Round, ProposalAcceptedForCurrentRound, PreparedRound, PreparedValue, Stage,
      ContainersMap, processCommitQuorumOnce, decidedMsg, decidedSignals, pipelinePc,
      proposalInputs, commitInputs, proposalErr, prepareErr, prepareSent>>

VARIABLES
    byz,             \* the faulty operators of the committee
    nRound,          \* State.Round at each operator
    nAccepted,       \* State.ProposalAcceptedForCurrentRound at each operator
    nPreparedRound,  \* State.PreparedRound at each operator
    nPreparedValue,  \* State.PreparedValue at each operator
    nDecided,        \* Instance.decidedMsg at each operator
    nStored,         \* the decided message each operator's controller saved
    sent             \* messages broadcast by honest operators

netVars ==
    <<byz, nRound, nAccepted, nPreparedRound, nPreparedValue, nDecided, nStored, sent>>

VARIABLES
    event,                \* the validator-added event handed to ShareFromValidatorEvent
    share,                \* the share (or the error) ShareFromValidatorEvent returned
    lusContainer,         \* a message container read by longestUniqueSignersForRoundAndValue
    lusRet,               \* the arguments and the result of its last call
    Height,               \* Controller.Height (protocol/qbft/controller)
    FutureMsgsContainer,  \* Controller.FutureMsgsContainer: signer -> height
    futureMsg,            \* the message UponFutureMsg handled last
    futureRes             \* what UponFutureMsg returned for it

VARIABLES
    wBuffer,      \* Config.Buffer: the capacity of Worker.queue
    wQueue,       \* the messages buffered in Worker.queue
    wClosed,      \* Worker.queue has been closed
    wCancelled,   \* Worker.ctx has been cancelled
    wPc,          \* each startWorker goroutine: in its select, processing, returned
    wMsg,         \* the message each goroutine received last
    handled,      \* the messages the handler has been invoked with
    handledBy,    \* per enqueued message, the workers that invoked the handler with it
    enqueued,     \* the messages TryEnqueue returned true for
    tryRes,       \* what the last TryEnqueue call did: "true", "false", "panic"
    closePc,      \* position of the Close call
    nextMsg       \* the next message handed to TryEnqueue

VARIABLES
    histStore,    \* heights of the decided instances in storage
    histReq,      \* sm.Params.Height of the DecidedHistory request
    histRes       \* the response: status, data, params.height

VARIABLES
    quorumArg,    \* committee, the argument of quorum
    quorumRet     \* its result

VARIABLES
    justifyArg,     \* the arguments of a Justify call and a second listing of its round changes
    justifyRet,     \* the results of Justify for the two listings
    aggregateArg,   \* the list handed to aggregateCommitMsgs
    aggregateRet    \* its result and the result for the reversed list

VARIABLES
    rHeight,        \* BaseRunner.QBFTController.Height
    rInstance,      \* BaseRunner.State.RunningInstance
    rDuty,          \* BaseRunner.hasRunningDuty()
    rTimers,        \* heights whose round timer is armed with onTimeout(h)
    rLast           \* the height of the last expired timer

shareVars == <<event, share>>
lusVars == <<lusContainer, lusRet>>
futureVars == <<Height, FutureMsgsContainer, futureMsg, futureRes>>
workerVars ==
    <<wBuffer, wQueue, wClosed, wCancelled, wPc, wMsg, handled, handledBy, enqueued, tryRes,
      closePc, nextMsg>>
historyVars == <<histStore, histReq, histRes>>
quorumVars == <<quorumArg, quorumRet>>
callVars == <<justifyArg, justifyRet, aggregateArg, aggregateRet>>
runnerVars == <<rHeight, rInstance, rDuty, rTimers, rLast>>
libVars == <<shareVars, lusVars, futureVars, workerVars, historyVars, quorumVars, callVars, runnerVars>>

nonCtrlVars == <<instVars, netVars, libVars>>
nonInstVars == <<ctrlVars, netVars, libVars>>
nonNetVars == <<ctrlVars, instVars, libVars>>
nonLibVars == <<ctrlVars, instVars, netVars>>

vars == <<ctrlVars, instVars, netVars, libVars>>

NoEvent == [n |-> 0]
NoShare == [err |-> "none"]
NoRet == [round |-> 0]
NoFutureMsg == [height |-> 0, signers |-> <<>>]
NoFutureMsgs == <<>>

WorkerIds == {"w1", "w2"}
MaxMsgs == 3
\* the messages handed to TryEnqueue, numbered in call order
Msgs == 1..MaxMsgs
NoHistory == [status |-> "none"]
NoQuorum == 0
NoCall == <<>>
NoRunning == [height |-> 0, round |-> 0, decided |-> FALSE]
NoTimer == [h |-> 0, n |-> 0]

\* no worker configured: a queue without capacity and nothing enqueued
WorkerNone ==
    /\ wBuffer = 0
    /\ wQueue = <<>>
    /\ wClosed = FALSE
    /\ wCancelled = FALSE
    /\ wPc = [w \in WorkerIds |-> "select"]
    /\ wMsg = [w \in WorkerIds |-> 0]
    /\ handled = {}
    /\ handledBy = [m \in Msgs |-> <<>>]
    /\ enqueued = {}
    /\ tryRes = "none"
    /\ closePc = "idle"
    /\ nextMsg = 1
\* no history request served yet
HistoryNone == histStore = {} /\ histReq = <<0, 0>> /\ histRes = NoHistory
\* quorum not called yet
QuorumNone == quorumArg = NoQuorum /\ quorumRet = NoQuorum
\* Justify and aggregateCommitMsgs not called yet
CallNone ==
    /\ justifyArg = NoCall /\ justifyRet = NoCall
    /\ aggregateArg = NoCall /\ aggregateRet = NoCall
\* a runner without duty, instance or timer
RunnerNone ==
    /\ rHeight = 0
    /\ rInstance = NoRunning
    /\ rDuty = FALSE
    /\ rTimers = {}
    /\ rLast = NoTimer
\* no share built yet
ShareNone == event = NoEvent /\ share = NoShare
\* no container looked at yet
LusNone == lusContainer = <<>> /\ lusRet = NoRet
\* the controller's future-message buffer after construction
FutureNew ==
    /\ Height = 0
    /\ FutureMsgsContainer = NoFutureMsgs
    /\ futureMsg = NoFutureMsg
    /\ futureRes = "none"

\* highestKnownDecided: the height of the highest decided message, nil if none
highestKnownDecided == IF decidedStore = {} THEN NoHeight ELSE Max(decidedStore)

\* New: the controller after construction, over an empty decided store
ControllerInit ==
    /\ State = NotStarted
    /\ height = 0
    /\ currentInstance = NoInstance
    /\ decidedStore = {}
    /\ instStage = [p \in Starters |-> "none"]
    /\ instHeight = [p \in Starters |-> 0]
    /\ stageChan = [p \in Starters |-> <<>>]
    /\ sPc = [p \in Starters |-> "idle"]
    /\ sHeight = [p \in Starters |-> 0]
    /\ sRes = [p \in Starters |-> "nil"]
    /\ sErr = [p \in Starters |-> ErrNil]
    /\ iPc = [p \in Initers |-> "idle"]
    /\ iKnown = [p \in Initers |-> NoHeight]
    /\ iErr = [p \in Initers |-> ErrNil]
    /\ iConcurrent = [p \in Initers |-> FALSE]
    /\ Q = {}
    /\ fPc = "idle"
    /\ handledDecided = {}
    /\ forkQueued = {}

\* heights.Height(0): specqbft.FirstHeight
FirstHeight == 0

\* instance.Stop(): marks the instance stopped and signals RoundStateStopped once
StoppedStage(st) == IF st \in {"decided", "decidedStopped"} THEN "decidedStopped" ELSE "stopped"
IsStopped(st) == st \in {"stopped", "decidedStopped"}
HasDecidedMsg(st) == st \in {"decided", "decidedStopped"}
\* a terminal instance: Decided or Stopped
IsTerminal(st) == st \in {"decided", "decidedStopped", "stopped"}

\* mutant of initialized: FoundPeers is taken for Ready
initializedFoundPeers(state) ==
    CASE state \in {Ready, FoundPeers} -> ErrNil
      [] state = Forking -> ErrForking
      [] OTHER -> ErrNotInitialized(stateStringMap(state))

\* initialized: true only in Ready, "forking in progress" in Forking
initialized(state) ==
    CASE state = Ready -> ErrNil
      [] state = Forking -> ErrForking
      [] OTHER -> ErrNotInitialized(stateStringMap(state))

\* canStartNewInstance: the conditions to start a new instance at height h
canStartNewInstance(h) ==
    IF initialized(State) # ErrNil THEN initialized(State)
    ELSE IF ~(\/ highestKnownDecided = NoHeight /\ h = FirstHeight
              \/ highestKnownDecided # NoHeight /\ h = highestKnownDecided + 1)
         THEN ErrSeqInvalid
    ELSE IF currentInstance # NoInstance /\ ~IsTerminal(instStage[currentInstance])
         THEN ErrStillRunning(instHeight[currentInstance])
    ELSE ErrNil

\* setHeight: stores the new height unconditionally
setHeight(h) == height' = h

------------------------------------------------------------------------------
\* mutant of StartInstance: the error of canStartNewInstance is not returned
StartInstanceUnchecked(p) ==
    /\ sPc[p] = "idle"
    /\ \E h \in Heights :
        /\ sHeight' = [sHeight EXCEPT ![p] = h]
        /\ sErr' = [sErr EXCEPT ![p] = ErrNil]
        /\ sPc' = [sPc EXCEPT ![p] = "setHeight"]
    /\ UNCHANGED nonCtrlVars
    /\ UNCHANGED <<State, height, currentInstance, decidedStore, instStage,
                   instHeight, stageChan, sRes, iPc, iKnown, iConcurrent, Q, iErr, fPc, handledDecided, forkQueued>>

\* StartInstance, lines 255-262: instanceOptionsFromStartOptions(opts) and
\* canStartNewInstance; an error is returned at once
StartInstance(p) ==
    /\ sPc[p] = "idle"
    /\ \E h \in Heights :
        LET err == canStartNewInstance(h) IN
        /\ sHeight' = [sHeight EXCEPT ![p] = h]
        /\ sErr' = [sErr EXCEPT ![p] = err]
        /\ sPc' = [sPc EXCEPT ![p] = IF err = ErrNil THEN "setHeight" ELSE "done"]
    /\ UNCHANGED nonCtrlVars
    /\ UNCHANGED <<State, height, currentInstance, decidedStore, instStage,
                   instHeight, stageChan, sRes, iPc, iKnown, iConcurrent, Q, iErr, fPc, handledDecided, forkQueued>>

\* StartInstance, line 266: c.setHeight(opts.Height)
StartInstanceSetHeight(p) ==
    /\ sPc[p] = "setHeight"
    /\ setHeight(sHeight[p])
    /\ sPc' = [sPc EXCEPT ![p] = "newInstance"]
    /\ UNCHANGED nonCtrlVars
    /\ UNCHANGED <<State, currentInstance, decidedStore, instStage, instHeight,
                   stageChan, sHeight, sRes, sErr, iPc, iKnown, iConcurrent, Q, iErr, fPc, handledDecided, forkQueued>>

\* startInstanceWithOptions, lines 480-491: NewInstance, SetCurrentInstance, Init, Start
startInstanceWithOptions(p) ==
    /\ sPc[p] = "newInstance"
    /\ currentInstance' = p
    /\ instHeight' = [instHeight EXCEPT ![p] = sHeight[p]]
    /\ stageChan' = [stageChan EXCEPT ![p] = <<>>]
    /\ \E started \in BOOLEAN :
        IF started
        THEN /\ instStage' = [instStage EXCEPT ![p] = "running"]
             /\ sPc' = [sPc EXCEPT ![p] = "loop"]
             /\ UNCHANGED sErr
        ELSE /\ instStage' = [instStage EXCEPT ![p] = "notStarted"]
             /\ sPc' = [sPc EXCEPT ![p] = "done"]
             /\ sErr' = [sErr EXCEPT ![p] = "could not start iBFT instance"]
    /\ UNCHANGED nonCtrlVars
    /\ UNCHANGED <<State, height, decidedStore, sHeight, sRes, iPc, iKnown, iConcurrent, Q, iErr, fPc, handledDecided, forkQueued>>

\* the running instance reaches commit quorum: ProcessStageChange(RoundStateDecided)
InstanceDecided(p) ==
    /\ instStage[p] = "running"
    /\ instStage' = [instStage EXCEPT ![p] = "decided"]
    /\ stageChan' = [stageChan EXCEPT ![p] = Append(@, "decided")]
    /\ UNCHANGED nonCtrlVars
    /\ UNCHANGED <<State, height, currentInstance, decidedStore, instHeight,
                   sPc, sHeight, sRes, sErr, iPc, iKnown, iConcurrent, Q, iErr, fPc, handledDecided, forkQueued>>

\* startInstanceWithOptions, lines 507-537: one turn of the instance loop,
\* with instanceStageChange (lines 584-650) for the stage read
instanceLoop(p) ==
    /\ sPc[p] = "loop"
    /\ stageChan[p] # <<>>
    /\ LET stage == Head(stageChan[p])
           rest == [stageChan EXCEPT ![p] = Tail(@)]
           ci == currentInstance
       IN
        IF ci = NoInstance
        THEN \* stage channel was invoked but instance is already empty
             /\ sPc' = [sPc EXCEPT ![p] = "after"]
             /\ stageChan' = rest
             /\ UNCHANGED <<decidedStore, instStage, sRes, sErr>>
        ELSE IF stage = "decided"
        THEN \* RoundStateDecided: save the aggregated commit, then Stop
             /\ instStage' = [instStage EXCEPT ![ci] = StoppedStage(@)]
             /\ stageChan' = IF IsStopped(instStage[ci]) THEN rest
                             ELSE [rest EXCEPT ![ci] = Append(@, "stopped")]
             /\ IF HasDecidedMsg(instStage[ci])
                THEN /\ decidedStore' = decidedStore \cup {instHeight[ci]}
                     /\ UNCHANGED <<sPc, sErr>>
                ELSE /\ sErr' = [sErr EXCEPT ![p] = ErrNoAggregated]
                     /\ sPc' = [sPc EXCEPT ![p] = "after"]
                     /\ UNCHANGED decidedStore
             /\ UNCHANGED sRes
        ELSE \* RoundStateStopped: exit, fetch the decided message of opts.Height
             /\ stageChan' = rest
             /\ sPc' = [sPc EXCEPT ![p] = "after"]
             /\ IF sHeight[p] \in decidedStore
                THEN /\ sRes' = [sRes EXCEPT ![p] = "decided"]
                     /\ UNCHANGED sErr
                ELSE /\ sErr' = [sErr EXCEPT ![p] = ErrFetchDecided]
                     /\ UNCHANGED sRes
             /\ UNCHANGED <<decidedStore, instStage>>
    /\ UNCHANGED nonCtrlVars
    /\ UNCHANGED <<State, height, currentInstance, instHeight, sHeight,
                   iPc, iKnown, iConcurrent, Q, iErr, fPc, handledDecided, forkQueued>>

\* the queue indices afterInstance purges for an instance of height h that
\* did not decide: this identifier, height <= h, but neither the partial
\* signatures nor the commits of height h
Purged(k, h) ==
    /\ k.ID = "id" /\ k.H <= h
    /\ ~(k.Mt = "partialSignature" /\ k.H = h)
    /\ ~(k.Cmt = "commit" /\ k.H = h)

\* startInstanceWithOptions, lines 538-549: read the current instance's
\* height, nil the current instance, afterInstance (lines 553-581), return
afterLoop(p) ==
    /\ sPc[p] = "after"
    /\ currentInstance' = NoInstance
    /\ LET seq == IF currentInstance # NoInstance THEN instHeight[currentInstance] ELSE 0
           decided == sRes[p] = "decided"
       IN  Q' = IF decided /\ sErr[p] = ErrNil THEN Q
                ELSE {k \in Q : ~Purged(k, seq)}
    /\ sPc' = [sPc EXCEPT ![p] = "done"]
    /\ UNCHANGED nonCtrlVars
    /\ UNCHANGED <<State, height, decidedStore, instStage, instHeight, stageChan,
                   sHeight, sRes, sErr, iPc, iKnown, iConcurrent, iErr, fPc, handledDecided, forkQueued>>

------------------------------------------------------------------------------
\* Init, lines 182-189: CAS NotStarted -> InitiatedHandlers, start the consumer
InitHandlers(p) ==
    /\ iPc[p] = "idle"
    /\ iConcurrent' = [iConcurrent EXCEPT ![p] =
                            \E q \in Initers \ {p} : iPc[q] \notin {"idle", "done"}]
    /\ IF State = NotStarted
       THEN /\ State' = InitiatedHandlers
            /\ iPc' = [iPc EXCEPT ![p] = "known"]
       ELSE /\ iPc' = [iPc EXCEPT ![p] = "cas2"]
            /\ UNCHANGED State
    /\ UNCHANGED nonCtrlVars
    /\ UNCHANGED <<height, currentInstance, decidedStore, instStage, instHeight,
                   stageChan, sPc, sHeight, sRes, sErr, iKnown, iErr, fPc, Q, handledDecided, forkQueued>>

\* setInitialHeight, line 430: height, err := c.highestKnownDecided()
setInitialHeightRead(p) ==
    /\ iPc[p] = "known"
    /\ iKnown' = [iKnown EXCEPT ![p] = highestKnownDecided]
    /\ iPc' = [iPc EXCEPT ![p] = "initHeight"]
    /\ UNCHANGED nonCtrlVars
    /\ UNCHANGED <<State, height, currentInstance, decidedStore, instStage,
                   instHeight, stageChan, sPc, sHeight, sRes, sErr, iErr, fPc, iConcurrent, Q, handledDecided, forkQueued>>

\* setInitialHeight, lines 434-438: first height if none found, else the decided height
setInitialHeight(p) ==
    /\ iPc[p] = "initHeight"
    /\ setHeight(IF iKnown[p] = NoHeight THEN FirstHeight ELSE iKnown[p])
    /\ iPc' = [iPc EXCEPT ![p] = "cas2"]
    /\ UNCHANGED nonCtrlVars
    /\ UNCHANGED <<State, currentInstance, decidedStore, instStage, instHeight,
                   stageChan, sPc, sHeight, sRes, sErr, iKnown, iConcurrent, Q, iErr, fPc, handledDecided, forkQueued>>

\* Init, lines 192-194: CAS InitiatedHandlers -> SyncedChangeRound, loadLastChangeRound
InitChangeRound(p) ==
    /\ iPc[p] = "cas2"
    /\ State' = IF State = InitiatedHandlers THEN SyncedChangeRound ELSE State
    /\ iPc' = [iPc EXCEPT ![p] = "load"]
    /\ UNCHANGED nonCtrlVars
    /\ UNCHANGED <<height, currentInstance, decidedStore, instStage, instHeight,
                   stageChan, sPc, sHeight, sRes, sErr, iKnown, iConcurrent, Q, iErr, fPc, handledDecided, forkQueued>>

\* Init, lines 197-199: already waiting for peers -> ErrAlreadyRunning
InitLoadState(p) ==
    /\ iPc[p] = "load"
    /\ IF State = WaitingForPeers
       THEN /\ iErr' = [iErr EXCEPT ![p] = ErrAlreadyRunning]
            /\ iPc' = [iPc EXCEPT ![p] = "done"]
       ELSE /\ iPc' = [iPc EXCEPT ![p] = "cas3"]
            /\ UNCHANGED iErr
    /\ UNCHANGED nonCtrlVars
    /\ UNCHANGED <<State, height, currentInstance, decidedStore, instStage,
                   instHeight, stageChan, sPc, sHeight, sRes, sErr, iKnown, iConcurrent, Q, fPc, handledDecided, forkQueued>>

\* Init, line 202: CAS SyncedChangeRound -> WaitingForPeers, else return nil
InitWaiting(p) ==
    /\ iPc[p] = "cas3"
    /\ IF State = SyncedChangeRound
       THEN /\ State' = WaitingForPeers
            /\ iPc' = [iPc EXCEPT ![p] = "wait"]
       ELSE /\ iPc' = [iPc EXCEPT ![p] = "done"]
            /\ UNCHANGED State
    /\ UNCHANGED nonCtrlVars
    /\ UNCHANGED <<height, currentInstance, decidedStore, instStage, instHeight,
                   stageChan, sPc, sHeight, sRes, sErr, iKnown, iConcurrent, Q, iErr, fPc, handledDecided, forkQueued>>

\* Init, lines 206-212: WaitForMinPeers; rollback on error, FoundPeers otherwise
InitWaitForMinPeers(p) ==
    /\ iPc[p] = "wait"
    /\ \E found \in BOOLEAN :
        IF found
        THEN /\ State' = FoundPeers
             /\ iPc' = [iPc EXCEPT ![p] = "sync"]
             /\ UNCHANGED iErr
        ELSE /\ State' = SyncedChangeRound
             /\ iErr' = [iErr EXCEPT ![p] = ErrNoPeers]
             /\ iPc' = [iPc EXCEPT ![p] = "done"]
    /\ UNCHANGED nonCtrlVars
    /\ UNCHANGED <<height, currentInstance, decidedStore, instStage, instHeight,
                   stageChan, sPc, sHeight, sRes, sErr, iKnown, iConcurrent, Q, fPc, handledDecided, forkQueued>>

\* Init, lines 215-234: syncDecided; Ready on success, rollback on failure
InitSyncDecided(p) ==
    /\ iPc[p] = "sync"
    /\ \E outcome \in {"ok", ErrAlreadyRunning, ErrSync} :
        /\ State' = CASE outcome = "ok" -> Ready
                      [] outcome = ErrSync -> SyncedChangeRound
                      [] OTHER -> State
        /\ iErr' = [iErr EXCEPT ![p] = IF outcome = ErrSync THEN ErrSync ELSE ErrNil]
    /\ iPc' = [iPc EXCEPT ![p] = "done"]
    /\ UNCHANGED nonCtrlVars
    /\ UNCHANGED <<height, currentInstance, decidedStore, instStage, instHeight,
                   stageChan, sPc, sHeight, sRes, sErr, iKnown, iConcurrent, Q, fPc, handledDecided, forkQueued>>

\* a decided certificate of the next height, received by sync or gossip, is
\* handled by the queue consumer and saved to decided storage
processDecidedMsg(h) ==
    /\ State # NotStarted
    /\ h = highestKnownDecided + 1
    /\ decidedStore' = decidedStore \cup {h}
    /\ UNCHANGED nonCtrlVars
    /\ UNCHANGED <<State, height, currentInstance, instStage, instHeight, stageChan,
                   sPc, sHeight, sRes, sErr, iPc, iKnown, iConcurrent, Q, iErr, fPc, handledDecided, forkQueued>>

------------------------------------------------------------------------------
\* OnFork, line 305: atomic.StoreUint32(&c.State, Forking)
OnForkStart ==
    /\ fPc = "idle"
    /\ State' = Forking
    /\ fPc' = "stop"
    /\ forkQueued' = {k \in Q : k.Mt = "decided"}
    /\ UNCHANGED nonCtrlVars
    /\ UNCHANGED <<height, currentInstance, decidedStore, instStage, instHeight,
                   stageChan, sPc, sHeight, sRes, sErr, iPc, iKnown, iConcurrent, Q, iErr,
                   handledDecided>>

\* OnFork, lines 308-309: stop the current instance
OnForkStop ==
    /\ fPc = "stop"
    /\ IF currentInstance # NoInstance
       THEN /\ instStage' = [instStage EXCEPT ![currentInstance] = StoppedStage(@)]
            /\ stageChan' = IF IsStopped(instStage[currentInstance]) THEN stageChan
                            ELSE [stageChan EXCEPT ![currentInstance] = Append(@, "stopped")]
            /\ fPc' = "nil"
       ELSE /\ fPc' = "clean"
            /\ UNCHANGED <<instStage, stageChan>>
    /\ UNCHANGED nonCtrlVars
    /\ UNCHANGED <<State, height, currentInstance, decidedStore, instHeight, sPc, sHeight,
                   sRes, sErr, iPc, iKnown, iConcurrent, Q, iErr, handledDecided, forkQueued>>

\* OnFork, line 310: c.SetCurrentInstance(nil)
OnForkNil ==
    /\ fPc = "nil"
    /\ currentInstance' = NoInstance
    /\ fPc' = "clean"
    /\ UNCHANGED nonCtrlVars
    /\ UNCHANGED <<State, height, decidedStore, instStage, instHeight, stageChan, sPc,
                   sHeight, sRes, sErr, iPc, iKnown, iConcurrent, Q, iErr, handledDecided,
                   forkQueued>>

\* the messages processAllDecided hands to the handler: the decided
\* messages of this identifier in the queue
QueuedDecided == {k \in Q : k.Mt = "decided" /\ k.ID = "id"}

\* the handler saves the certificate of a decided message of the next height
SaveDecided(store, ks) ==
    IF \E k \in ks : k.H = highestKnownDecided + 1
    THEN store \cup {highestKnownDecided + 1}
    ELSE store

\* mutant of OnForkReturn: the queue is cleaned without processAllDecided
OnForkReturnCleanOnly ==
    /\ fPc = "clean"
    /\ Q' = {}
    /\ State' = Ready
    /\ fPc' = "done"
    /\ UNCHANGED nonCtrlVars
    /\ UNCHANGED <<height, currentInstance, decidedStore, instStage, instHeight,
                   stageChan, sPc, sHeight, sRes, sErr, iPc, iKnown, iConcurrent, iErr,
                   handledDecided, forkQueued>>

\* OnFork, lines 312-321 and the deferred store of line 306:
\* processAllDecided hands every queued decided message to the handler,
\* the queue is cleaned of every index, the fork is swapped, back to Ready
OnForkReturn ==
    /\ fPc = "clean"
    /\ handledDecided' = handledDecided \cup QueuedDecided
    /\ decidedStore' = SaveDecided(decidedStore, QueuedDecided)
    /\ Q' = {}
    /\ State' = Ready
    /\ fPc' = "done"
    /\ UNCHANGED nonCtrlVars
    /\ UNCHANGED <<height, currentInstance, instStage, instHeight,
                   stageChan, sPc, sHeight, sRes, sErr, iPc, iKnown, iConcurrent, iErr,
                   forkQueued>>

\* indices of the messages the network hands to ProcessMsg
MaxQueue == 1
QueueIndices ==
    {[ID |-> id, H |-> h, Mt |-> mt, Cmt |-> cmt] :
        id \in {"id", "other"}, h \in 0..MaxHeight,
        mt \in {"consensus", "partialSignature"}, cmt \in {"prepare", "commit"}}

\* the indices of decided messages of this identifier
DecidedIndices ==
    {[ID |-> "id", H |-> h, Mt |-> "decided", Cmt |-> "commit"] : h \in 0..MaxHeight}

\* ProcessMsg: the message is added to the queue
ProcessMsg(k) ==
    /\ Cardinality(Q) < MaxQueue
    /\ k.Mt = "partialSignature" => k.Cmt = "prepare"
    /\ Q' = Q \cup {k}
    /\ handledDecided' = handledDecided \ {k}
    /\ UNCHANGED nonCtrlVars
    /\ UNCHANGED <<State, height, currentInstance, decidedStore, instStage, instHeight,
                   stageChan, sPc, sHeight, sRes, sErr, iPc, iKnown, iConcurrent, iErr, fPc,
                   forkQueued>>

\* the queue consumer started by Init pops a decided message and hands it
\* to MessageHandler
ConsumeDecided(k) ==
    /\ State # NotStarted
    /\ k \in QueuedDecided
    /\ Q' = Q \ {k}
    /\ handledDecided' = handledDecided \cup {k}
    /\ decidedStore' = SaveDecided(decidedStore, {k})
    /\ UNCHANGED nonCtrlVars
    /\ UNCHANGED <<State, height, currentInstance, instStage, instHeight,
                   stageChan, sPc, sHeight, sRes, sErr, iPc, iKnown, iConcurrent, iErr, fPc,
                   forkQueued>>

(***************************************************************************)
(* The QBFT instance: messages, containers and validation.                 *)
(***************************************************************************)
\* committee of the integration scenarios
CommitteeSize == 4
Operators == 1..CommitteeSize
\* f := (len(committee) - 1) / 3
F == (CommitteeSize - 1) \div 3
\* Share.Quorum = 2f+1, Share.PartialQuorum = f+1
Quorum == 2 * F + 1
PartialQuorum == F + 1

MaxRound == 3
Rounds == 1..MaxRound
NoRound == 0
FirstRound == 1
Values == {"v1", "v2"}
NoValue == "nil"

\* a signed message; signers is the list GetSigners() returns, a round-change
\* carries (pr, pv) and a proposal its two justifications
Msg(t, h, r, d, s) ==
    [type |-> t, height |-> h, round |-> r, data |-> d, signers |-> s,
     pr |-> NoRound, pv |-> NoValue, rcj |-> <<>>, pj |-> <<>>]
NoMsg == Msg("none", 0, NoRound, NoValue, <<>>)
CommitMsg(r, d, s) == Msg("commit", FirstHeight, r, d, s)
PrepareMsg(r, d, s) == Msg("prepare", FirstHeight, r, d, s)
RoundChangeMsg(r, s, pr, pv) ==
    [Msg("roundchange", FirstHeight, r, NoValue, s) EXCEPT !.pr = pr, !.pv = pv]
ProposalMsg(r, d, s, rcj, pj) ==
    [Msg("proposal", FirstHeight, r, d, s) EXCEPT !.rcj = rcj, !.pj = pj]

MsgTypes == {"proposal", "prepare", "commit", "roundchange"}
Range(f) == {f[i] : i \in DOMAIN f}

\* SignedMessage.CommonSigners: some signer of m is in ids
CommonSigners(m, ids) ==
    \E i \in DOMAIN m.signers : \E j \in DOMAIN ids : m.signers[i] = ids[j]

\* SignedMessage.GetRoot: the hash of the message without signature and signers
GetRoot(m) == [m EXCEPT !.signers = <<>>]

\* SignedMessage.Aggregate: fold m into ret, refusing mutual signers and
\* messages of another root
Aggregate(ret, m) ==
    IF ret = NoMsg \/ CommonSigners(m, ret.signers) THEN NoMsg
    ELSE IF GetRoot(ret) # GetRoot(m) THEN NoMsg
    ELSE [ret EXCEPT !.signers = @ \o m.signers]

\* share.HasQuorum, share.HasPartialQuorum
HasPartialQuorum(cnt) == cnt >= PartialQuorum
HasQuorum(cnt) == cnt >= Quorum

\* MessageContainer.AddMessage: append unless this round already holds a
\* message with an identical signer set
AddMessage(container, m) ==
    IF \E i \in DOMAIN container :
          container[i].round = m.round /\ Range(container[i].signers) = Range(m.signers)
    THEN container
    ELSE Append(container, m)

\* MessageContainer.ReadOnlyMessagesByRound
ReadOnlyMessagesByRound(container, r) ==
    LET byRound(m) == m.round = r IN SelectSeq(container, byRound)

\* inner loop of longestUniqueSignersForRoundAndValue (j = i+1 .. len-1)
RECURSIVE uniqueFrom(_, _, _, _, _)
uniqueFrom(msgs, j, value, currentSigners, currentMsgs) ==
    IF j > Len(msgs) THEN <<currentSigners, currentMsgs>>
    ELSE IF msgs[j].data # value \/ CommonSigners(msgs[j], currentSigners)
    THEN uniqueFrom(msgs, j + 1, value, currentSigners, currentMsgs)
    ELSE uniqueFrom(msgs, j + 1, value, currentSigners \o msgs[j].signers,
                    Append(currentMsgs, msgs[j]))

\* outer loop of longestUniqueSignersForRoundAndValue (i = 0 .. len-1)
RECURSIVE longestFrom(_, _, _, _)
longestFrom(msgs, i, value, ret) ==
    IF i > Len(msgs) THEN ret
    ELSE IF msgs[i].data # value THEN longestFrom(msgs, i + 1, value, ret)
    ELSE CHOOSE out \in
            {longestFrom(msgs, i + 1, value,
                         IF Len(signersRet[1]) < Len(current[1]) THEN current
                         ELSE signersRet) :
                current \in {uniqueFrom(msgs, i + 1, value, msgs[i].signers, <<msgs[i]>>)},
                signersRet \in {ret}} : TRUE

\* mutant of longestUniqueSignersForRoundAndValue: messages are collected
\* without the CommonSigners test
countAllSignersForRoundAndValue(container, r, value) ==
    LET match(m) == m.round = r /\ m.data = value
        msgs == SelectSeq(container, match)
        cat[k \in 0..Len(msgs)] == IF k = 0 THEN <<>> ELSE cat[k - 1] \o msgs[k].signers
    IN  <<cat[Len(msgs)], msgs>>

\* longestUniqueSignersForRoundAndValue: <<signers, msgs>>
longestUniqueSignersForRoundAndValue(container, r, value) ==
    longestFrom(ReadOnlyMessagesByRound(container, r), 1, value, <<(<<>>), (<<>>)>>)

\* mutant of commitQuorumForCurrentRoundValue: the partial quorum is asked for
commitPartialQuorumForCurrentRoundValue(msgRound, container, value) ==
    LET l == longestUniqueSignersForRoundAndValue(container, msgRound, value)
    IN  <<HasPartialQuorum(Len(l[1])), l[2]>>

\* commitQuorumForCurrentRoundValue: <<quorum, msgs>>
commitQuorumForCurrentRoundValue(msgRound, container, value) ==
    LET l == longestUniqueSignersForRoundAndValue(container, msgRound, value)
    IN  <<HasQuorum(Len(l[1])), l[2]>>

\* mutant of aggregateCommitMsgs: the copy of the first message is replaced by
\* each later one
aggregateCommitMsgsLast(msgs) ==
    IF Len(msgs) = 0 THEN NoMsg ELSE msgs[Len(msgs)]

\* aggregateCommitMsgs: deep copy of the first message, the rest folded in;
\* NoMsg stands for the error return
aggregateCommitMsgs(msgs) ==
    LET agg[k \in 0..Len(msgs)] ==
            IF k = 0 THEN NoMsg
            ELSE IF k = 1 THEN msgs[1]
            ELSE Aggregate(agg[k - 1], msgs[k])
    IN  agg[Len(msgs)]

------------------------------------------------------------------------------
(***************************************************************************)
(* The commit pipeline of one instance.                                    *)
(***************************************************************************)
\* goroutines that hand messages to the instance's pipelines
Deliverers == {"d1", "d2"}
MaxCommits == 4
\* NewInstance at every operator; nothing broadcast yet
NetworkNew(b) ==
    /\ byz = b
    /\ nRound = [n \in Operators |-> FirstRound]
    /\ nAccepted = [n \in Operators |-> NoMsg]
    /\ nPreparedRound = [n \in Operators |-> NoRound]
    /\ nPreparedValue = [n \in Operators |-> NoValue]
    /\ nDecided = [n \in Operators |-> NoMsg]
    /\ nStored = [n \in Operators |-> NoMsg]
    /\ sent = {}

\* NewInstance: first round, empty containers, the one-shot guard unused
InstanceNew(pIn, cIn) ==
    /\ Round = FirstRound
    /\ ProposalAcceptedForCurrentRound = NoMsg
    /\ PreparedRound = NoRound
    /\ PreparedValue = NoValue
    /\ Stage = "notStarted"
    /\ ContainersMap = [t \in MsgTypes |-> <<>>]
    /\ processCommitQuorumOnce = FALSE
    /\ decidedMsg = NoMsg
    /\ decidedSignals = 0
    /\ pipelinePc = [d \in Deliverers |-> NoMsg]
    /\ proposalInputs = pIn
    /\ commitInputs = cIn
    /\ proposalErr = [d \in Deliverers |-> ErrNil]
    /\ prepareErr = [d \in Deliverers |-> ErrNil]
    /\ prepareSent = <<>>

\* commits the environment delivers to the commit pipeline
CommitUniverse ==
    {CommitMsg(1, v, <<s>>) : v \in Values, s \in Operators}
        \cup {CommitMsg(2, "v2", <<s>>) : s \in 1..Quorum}
CommitFew == {CommitMsg(1, "v1", <<s>>) : s \in 1..Quorum}
CommitInputs ==
    CASE commitInputs = "all" -> CommitUniverse
      [] commitInputs = "few" -> CommitFew
      [] OTHER -> {}

\* fork.CommitMsgValidationPipeline: a commit of this height by one committee member
CommitMsgValidation(m) ==
    /\ m.type = "commit"
    /\ m.height = FirstHeight
    /\ Len(m.signers) = 1
    /\ Range(m.signers) \subseteq Operators

\* CommitMsgValidationPipeline: validate, then "add commit msg"
CommitMsgValidationPipeline(d, m) ==
    /\ pipelinePc[d] = NoMsg
    /\ m \in CommitInputs
    /\ CommitMsgValidation(m)
    /\ Len(ContainersMap["commit"]) < MaxCommits
    /\ ContainersMap' = [ContainersMap EXCEPT !["commit"] = AddMessage(@, m)]
    /\ pipelinePc' = [pipelinePc EXCEPT ![d] = m]
    /\ UNCHANGED <<Round, ProposalAcceptedForCurrentRound, PreparedRound, PreparedValue,
                   Stage, processCommitQuorumOnce, decidedMsg, decidedSignals,
                   proposalInputs, commitInputs,
                   proposalErr, prepareErr, prepareSent>>
    /\ UNCHANGED nonInstVars

\* mutant of uponCommitMsg: the quorum is processed without the one-shot guard
uponCommitMsgEveryTime(d) ==
    /\ pipelinePc[d].type = "commit"
    /\ LET signedMessage == pipelinePc[d]
           q == commitQuorumForCurrentRoundValue(signedMessage.round,
                    ContainersMap["commit"], signedMessage.data)
           agg == aggregateCommitMsgs(q[2])
       IN  IF q[1] /\ agg # NoMsg
           THEN /\ decidedMsg' = agg
                /\ Stage' = "decided"
                /\ decidedSignals' = decidedSignals + 1
           ELSE UNCHANGED <<decidedMsg, Stage, decidedSignals>>
    /\ pipelinePc' = [pipelinePc EXCEPT ![d] = NoMsg]
    /\ UNCHANGED <<Round, ProposalAcceptedForCurrentRound, PreparedRound, PreparedValue,
                   ContainersMap, processCommitQuorumOnce, proposalInputs, commitInputs,
                   proposalErr, prepareErr, prepareSent>>
    /\ UNCHANGED nonInstVars

\* uponCommitMsg: on a commit quorum for the message's round and value,
\* processCommitQuorumOnce.Do(aggregate, set decidedMsg, signal Decided)
uponCommitMsg(d) ==
    /\ pipelinePc[d].type = "commit"
    /\ LET signedMessage == pipelinePc[d]
           q == commitQuorumForCurrentRoundValue(signedMessage.round,
                    ContainersMap["commit"], signedMessage.data)
           agg == aggregateCommitMsgs(q[2])
       IN  IF q[1] /\ ~processCommitQuorumOnce
           THEN /\ processCommitQuorumOnce' = TRUE
                /\ IF agg # NoMsg
                   THEN /\ decidedMsg' = agg
                        /\ Stage' = "decided"
                        /\ decidedSignals' = decidedSignals + 1
                   ELSE UNCHANGED <<decidedMsg, Stage, decidedSignals>>
           ELSE UNCHANGED <<processCommitQuorumOnce, decidedMsg, Stage, decidedSignals>>
    /\ pipelinePc' = [pipelinePc EXCEPT ![d] = NoMsg]
    /\ UNCHANGED <<Round, ProposalAcceptedForCurrentRound, PreparedRound, PreparedValue,
                   ContainersMap, proposalInputs, commitInputs,
                   proposalErr, prepareErr, prepareSent>>
    /\ UNCHANGED nonInstVars

CommitInit == ControllerInit /\ InstanceNew("none", "all") /\ NetworkNew({})
    /\ ShareNone /\ LusNone /\ FutureNew /\ WorkerNone /\ HistoryNone /\ QuorumNone /\ CallNone /\ RunnerNone

CommitNext ==
    \/ \E d \in Deliverers : \E m \in CommitUniverse : CommitMsgValidationPipeline(d, m)
    \/ \E d \in Deliverers : uponCommitMsg(d)

SpecCommit == CommitInit /\ [][CommitNext]_vars

------------------------------------------------------------------------------
(***************************************************************************)
(* Proposal validation and the proposal pipeline of one instance.          *)
(***************************************************************************)
\* signedmsg.HasQuorum: the unique signers of msgs reach the quorum
signedmsgHasQuorum(msgs) ==
    Cardinality(UNION {Range(msgs[k].signers) : k \in DOMAIN msgs}) >= Quorum

\* RoundChangeData.Prepared
Prepared(rc) == rc.pr # NoRound \/ rc.pv # NoValue

\* the pipeline Justify runs on each round change: basic validation, type,
\* height, round, authorised signers, changeround.ValidateWithRound
ValidRoundChange(rc, h, r) ==
    /\ rc.signers # <<>>
    /\ rc.type = "roundchange"
    /\ rc.height = h
    /\ rc.round = r
    /\ Range(rc.signers) \subseteq Operators
    /\ Prepared(rc) => rc.pr # NoRound /\ rc.pv # NoValue

\* mutant of highestPrepared: a later round change of equal prepared round wins
highestPreparedLast(roundChanges) ==
    LET hp[k \in 0..Len(roundChanges)] ==
            IF k = 0 THEN NoMsg
            ELSE IF ~Prepared(roundChanges[k]) THEN hp[k - 1]
            ELSE IF hp[k - 1] = NoMsg THEN roundChanges[k]
            ELSE IF hp[k - 1].pr <= roundChanges[k].pr THEN roundChanges[k]
            ELSE hp[k - 1]
    IN  hp[Len(roundChanges)]

\* highestPrepared: the round change with the highest prepared round, the
\* first of them on a tie, NoMsg if none is prepared
highestPrepared(roundChanges) ==
    LET hp[k \in 0..Len(roundChanges)] ==
            IF k = 0 THEN NoMsg
            ELSE IF ~Prepared(roundChanges[k]) THEN hp[k - 1]
            ELSE IF hp[k - 1] = NoMsg THEN roundChanges[k]
            ELSE IF hp[k - 1].pr < roundChanges[k].pr THEN roundChanges[k]
            ELSE hp[k - 1]
    IN  hp[Len(roundChanges)]

\* validateRoundChangeJustification: TRUE when the prepare passes
validateRoundChangeJustification(signedPrepare, h, r, value) ==
    /\ signedPrepare.type = "prepare"
    /\ signedPrepare.height = h
    /\ signedPrepare.round = r
    /\ signedPrepare.data # NoValue
    /\ signedPrepare.data = value
    /\ HasQuorum(Len(signedPrepare.signers)) \/ Len(signedPrepare.signers) = 1
    /\ Range(signedPrepare.signers) \subseteq Operators

\* mutant of Justify: the proposed value is not compared with the highest prepared value
JustifyAnyValue(h, r, roundChanges, prepares, proposedValue) ==
    IF r = 1 THEN "nil"
    ELSE IF \E k \in DOMAIN roundChanges : ~ValidRoundChange(roundChanges[k], h, r)
    THEN "change round msg not valid"
    ELSE IF ~signedmsgHasQuorum(roundChanges) THEN "change round has not quorum"
    ELSE IF ~\E k \in DOMAIN roundChanges : Prepared(roundChanges[k]) THEN "nil"
    ELSE IF ~signedmsgHasQuorum(prepares) THEN "prepares has no quorum"
    ELSE LET highest == highestPrepared(roundChanges) IN
         IF highest = NoMsg THEN "no highest prepared"
         ELSE IF \E k \in DOMAIN prepares :
                    ~validateRoundChangeJustification(prepares[k], h, highest.pr, highest.pv)
         THEN "signed prepare not valid"
         ELSE "nil"

\* Justify: "nil" or the error
Justify(h, r, roundChanges, prepares, proposedValue) ==
    IF r = 1 THEN "nil"
    ELSE IF \E k \in DOMAIN roundChanges : ~ValidRoundChange(roundChanges[k], h, r)
    THEN "change round msg not valid"
    ELSE IF ~signedmsgHasQuorum(roundChanges) THEN "change round has not quorum"
    ELSE IF ~\E k \in DOMAIN roundChanges : Prepared(roundChanges[k]) THEN "nil"
    ELSE IF ~signedmsgHasQuorum(prepares) THEN "prepares has no quorum"
    ELSE LET highest == highestPrepared(roundChanges) IN
         IF highest = NoMsg THEN "no highest prepared"
         ELSE IF proposedValue # highest.pv
         THEN "proposed data doesn't match highest prepared"
         ELSE IF \E k \in DOMAIN prepares :
                    ~validateRoundChangeJustification(prepares[k], h, highest.pr, highest.pv)
         THEN "signed prepare not valid"
         ELSE "nil"

\* Instance.RoundLeader: round-robin over the committee
RoundLeader(h, r) == ((h + r - 1) % CommitteeSize) + 1

\* mutant of ValidateProposalMsg: the state of the instance is not consulted
ValidateProposalMsgAnyState(accepted, stateRound, h, signedMessage) ==
    IF Len(signedMessage.signers) # 1 THEN "proposal msg allows 1 signer"
    ELSE IF signedMessage.signers # <<RoundLeader(h, signedMessage.round)>>
    THEN "proposal leader invalid"
    ELSE IF signedMessage.data = NoValue THEN "proposalData invalid"
    ELSE IF Justify(h, signedMessage.round, signedMessage.rcj, signedMessage.pj,
                    signedMessage.data) # "nil"
    THEN "proposal not justified"
    ELSE "nil"

\* ValidateProposalMsg: "nil" or the error
ValidateProposalMsg(accepted, stateRound, h, signedMessage) ==
    IF Len(signedMessage.signers) # 1 THEN "proposal msg allows 1 signer"
    ELSE IF signedMessage.signers # <<RoundLeader(h, signedMessage.round)>>
    THEN "proposal leader invalid"
    ELSE IF signedMessage.data = NoValue THEN "proposalData invalid"
    ELSE IF Justify(h, signedMessage.round, signedMessage.rcj, signedMessage.pj,
                    signedMessage.data) # "nil"
    THEN "proposal not justified"
    ELSE IF \/ accepted = NoMsg /\ signedMessage.round = stateRound
            \/ accepted # NoMsg /\ signedMessage.round > stateRound
    THEN "nil"
    ELSE "proposal is not valid with current state"

\* fork.ProposalMsgValidationPipeline: type and height, then ValidateProposalMsg
proposalMsgValidationPipeline(accepted, stateRound, h, signedMessage) ==
    IF signedMessage.type # "proposal" THEN "message type is wrong"
    ELSE IF signedMessage.height # h THEN "invalid message sequence number"
    ELSE ValidateProposalMsg(accepted, stateRound, h, signedMessage)

------------------------------------------------------------------------------
\* proposals the environment delivers: justifications are built from round
\* changes of operators 1..3 (complete, short, with a repeated signer, or of
\* the previous round) and from prepare certificates
NotPrepared == <<NoRound, NoValue>>
PreparedCombos ==
    {<<NotPrepared, NotPrepared>>, <<(<<1, "v1">>), NotPrepared>>,
     <<NotPrepared, (<<1, "v2">>)>>, <<(<<1, "v1">>), (<<1, "v2">>)>>,
     <<(<<1, "v2">>), (<<1, "v1">>)>>, <<(<<1, "v1">>), (<<2, "v2">>)>>,
     <<(<<2, "v2">>), (<<1, "v1">>)>>}
RoundChangeSeq(r, sg, pc, r1) ==
    [k \in 1..Len(sg) |->
        RoundChangeMsg(IF k = 1 THEN r1 ELSE r, <<sg[k]>>,
                       IF k <= 2 THEN pc[k][1] ELSE NoRound,
                       IF k <= 2 THEN pc[k][2] ELSE NoValue)]
RoundChangeSeqs(r) ==
    {RoundChangeSeq(r, sg, pc, r) : sg \in {<<1, 2, 3>>, <<1, 2>>, <<1, 2, 2>>},
                                    pc \in PreparedCombos}
        \cup {RoundChangeSeq(r, <<1, 2, 3>>, <<NotPrepared, NotPrepared>>, r - 1)}
PrepareQuorum(r, v) == [k \in 1..Quorum |-> PrepareMsg(r, v, <<k>>)]
PrepareSeqs ==
    {<<>>, PrepareQuorum(1, "v1"), PrepareQuorum(1, "v2"), PrepareQuorum(2, "v2"),
     SubSeq(PrepareQuorum(1, "v1"), 1, 2), <<PrepareMsg(1, "v1", <<1, 2, 3>>)>>,
     <<PrepareMsg(1, "v1", <<1>>), PrepareMsg(1, "v1", <<2>>), PrepareMsg(1, "v2", <<3>>)>>}
ProposalUniverse ==
    {ProposalMsg(1, v, <<s>>, <<>>, <<>>) : v \in Values, s \in 1..2}
        \cup {ProposalMsg(r, v, <<RoundLeader(FirstHeight, r)>>, rcj, pj) :
                  r \in {2}, v \in Values, rcj \in RoundChangeSeqs(2), pj \in PrepareSeqs}
        \cup UNION {{ProposalMsg(r, v, <<RoundLeader(FirstHeight, r)>>, rcj, pj) :
                        v \in Values, rcj \in RoundChangeSeqs(r), pj \in PrepareSeqs} :
                    r \in 3..MaxRound}
\* a few proposals, all justified by round changes that are not prepared
ProposalFew ==
    {ProposalMsg(1, v, <<1>>, <<>>, <<>>) : v \in Values}
        \cup {ProposalMsg(r, "v1", <<RoundLeader(FirstHeight, r)>>,
                          RoundChangeSeq(r, <<1, 2, 3>>, <<NotPrepared, NotPrepared>>, r),
                          <<>>) : r \in 2..MaxRound}
ProposalInputs ==
    CASE proposalInputs = "all" -> ProposalUniverse
      [] proposalInputs = "few" -> ProposalFew
      [] OTHER -> {}

\* mutant of ProposalMsgPipeline: the validation error is not returned
ProposalMsgPipelineUnvalidated(d, m) ==
    /\ pipelinePc[d] = NoMsg
    /\ m \in ProposalInputs
    /\ proposalErr' = [proposalErr EXCEPT ![d] = ErrNil]
    /\ ContainersMap' = [ContainersMap EXCEPT !["proposal"] = AddMessage(@, m)]
    /\ pipelinePc' = [pipelinePc EXCEPT ![d] = m]
    /\ UNCHANGED <<Round, ProposalAcceptedForCurrentRound, PreparedRound, PreparedValue,
                   Stage, processCommitQuorumOnce, decidedMsg, decidedSignals,
                   proposalInputs, commitInputs, prepareErr, prepareSent>>
    /\ UNCHANGED nonInstVars

\* ProposalMsgPipeline: the validation pipeline, whose error ends the run,
\* then "add proposal msg"; UponProposalMsg follows
ProposalMsgPipeline(d, m) ==
    /\ pipelinePc[d] = NoMsg
    /\ m \in ProposalInputs
    /\ \E err \in {proposalMsgValidationPipeline(ProposalAcceptedForCurrentRound, Round,
                                                  FirstHeight, m)} :
        /\ proposalErr' = [proposalErr EXCEPT ![d] = err]
        /\ IF err = ErrNil
           THEN /\ ContainersMap' = [ContainersMap EXCEPT !["proposal"] = AddMessage(@, m)]
                /\ pipelinePc' = [pipelinePc EXCEPT ![d] = m]
           ELSE UNCHANGED <<ContainersMap, pipelinePc>>
    /\ UNCHANGED <<Round, ProposalAcceptedForCurrentRound, PreparedRound, PreparedValue,
                   Stage, processCommitQuorumOnce, decidedMsg, decidedSignals,
                   proposalInputs, commitInputs, prepareErr, prepareSent>>
    /\ UNCHANGED nonInstVars

\* GeneratePrepareMessage: a PREPARE of the state's round for the value of
\* the proposal
GeneratePrepareMessage(r, proposal) ==
    [round |-> r, data |-> proposal.data, proposal |-> proposal.round]

\* mutant of UponProposalMsg: bumpToRound runs whatever the current round is
UponProposalMsgAlwaysBump(d) ==
    /\ pipelinePc[d].type = "proposal"
    /\ ProposalAcceptedForCurrentRound' = pipelinePc[d]
    /\ Round' = pipelinePc[d].round
    /\ Stage' = "proposal"
    /\ pipelinePc' = [pipelinePc EXCEPT ![d] = NoMsg]
    /\ prepareSent' = Append(prepareSent,
                           GeneratePrepareMessage(pipelinePc[d].round, pipelinePc[d]))
    /\ UNCHANGED <<PreparedRound, PreparedValue, ContainersMap, processCommitQuorumOnce,
                   decidedMsg, decidedSignals, proposalInputs, commitInputs,
                   proposalErr, prepareErr>>
    /\ UNCHANGED nonInstVars

\* UponProposalMsg: store the accepted proposal, bump into a future round,
\* mark the Proposal stage (the prepare broadcast leaves the instance)
UponProposalMsg(d) ==
    /\ pipelinePc[d].type = "proposal"
    /\ ProposalAcceptedForCurrentRound' = pipelinePc[d]
    /\ Round' = IF pipelinePc[d].round > Round THEN pipelinePc[d].round ELSE Round
    /\ Stage' = "proposal"
    /\ pipelinePc' = [pipelinePc EXCEPT ![d] = NoMsg]
    /\ prepareSent' = Append(prepareSent, GeneratePrepareMessage(Round', pipelinePc[d]))
    /\ UNCHANGED <<PreparedRound, PreparedValue, ContainersMap, processCommitQuorumOnce,
                   decidedMsg, decidedSignals, proposalInputs, commitInputs,
                   proposalErr, prepareErr>>
    /\ UNCHANGED nonInstVars

\* onTimeout: nothing once decided, else instance.UponRoundTimeout(): next
\* round, no proposal accepted for it, ChangeRound stage
onTimeout ==
    /\ Round < MaxRound
    /\ IF decidedMsg # NoMsg
       THEN UNCHANGED <<Round, ProposalAcceptedForCurrentRound, Stage>>
       ELSE /\ Round' = Round + 1
            /\ ProposalAcceptedForCurrentRound' = NoMsg
            /\ Stage' = "changeRound"
    /\ UNCHANGED <<PreparedRound, PreparedValue, ContainersMap, processCommitQuorumOnce,
                   decidedMsg, decidedSignals, pipelinePc, proposalInputs, commitInputs,
                   proposalErr, prepareErr, prepareSent>>
    /\ UNCHANGED nonInstVars

ProposalInit == ControllerInit /\ InstanceNew("all", "none") /\ NetworkNew({})
    /\ ShareNone /\ LusNone /\ FutureNew /\ WorkerNone /\ HistoryNone /\ QuorumNone /\ CallNone /\ RunnerNone

ProposalNext ==
    \/ \E m \in ProposalUniverse : ProposalMsgPipeline("d1", m)
    \/ UponProposalMsg("d1")
    \/ onTimeout

SpecProposal == ProposalInit /\ [][ProposalNext]_vars

------------------------------------------------------------------------------
(***************************************************************************)
(* Prepare and round-change messages; the instance under every message.    *)
(***************************************************************************)
PrepareFew == {PrepareMsg(1, "v1", <<s>>) : s \in 1..Quorum}
RoundChangeFew == {RoundChangeMsg(r, <<r>>, NoRound, NoValue) : r \in 2..MaxRound}

\* ValidatePrepareMsgSigners: "nil" or the error
ValidatePrepareMsgSigners(signedMessage) ==
    IF Len(signedMessage.signers) # 1 THEN "prepare msg allows 1 signer" ELSE "nil"

\* mutant of ValidateProposal: every prepare matches
ValidateProposalAny(accepted, signedMessage) == "nil"

\* ValidateProposal: the prepare against the proposal accepted for this round
ValidateProposal(accepted, signedMessage) ==
    IF accepted = NoMsg THEN "no proposal accepted for prepare"
    ELSE IF signedMessage.data = NoValue THEN "prepareData invalid"
    ELSE IF signedMessage.data # accepted.data
    THEN "message data is different from proposed data"
    ELSE "nil"

\* fork.PrepareMsgValidationPipeline: type, height, round, authorised single
\* signer, then ValidateProposal
prepareMsgValidationPipeline(accepted, stateRound, h, signedMessage) ==
    IF signedMessage.type # "prepare" THEN "message type is wrong"
    ELSE IF signedMessage.height # h THEN "invalid message sequence number"
    ELSE IF signedMessage.round # stateRound THEN "message round is wrong"
    ELSE IF ~(Range(signedMessage.signers) \subseteq Operators) THEN "unauthorized"
    ELSE IF ValidatePrepareMsgSigners(signedMessage) # "nil"
    THEN ValidatePrepareMsgSigners(signedMessage)
    ELSE ValidateProposal(accepted, signedMessage)

\* PrepareMsgPipeline: validate, add, and on a prepare quorum for the round
\* and value record the prepared round and value (the commit broadcast
\* leaves the instance)
PrepareMsgPipeline(d, m) ==
    /\ pipelinePc[d] = NoMsg
    /\ proposalInputs = "few"
    /\ m \in PrepareFew
    /\ prepareMsgValidationPipeline(ProposalAcceptedForCurrentRound, Round,
                                    FirstHeight, m) = "nil"
    /\ LET container == AddMessage(ContainersMap["prepare"], m)
           l == longestUniqueSignersForRoundAndValue(container, m.round, m.data)
       IN  /\ ContainersMap' = [ContainersMap EXCEPT !["prepare"] = container]
           /\ IF HasQuorum(Len(l[1]))
              THEN /\ PreparedRound' = m.round
                   /\ PreparedValue' = m.data
                   /\ Stage' = "prepare"
              ELSE UNCHANGED <<PreparedRound, PreparedValue, Stage>>
    /\ UNCHANGED <<Round, ProposalAcceptedForCurrentRound, processCommitQuorumOnce,
                   decidedMsg, decidedSignals, pipelinePc, proposalInputs, commitInputs,
                   proposalErr, prepareErr, prepareSent>>
    /\ UNCHANGED nonInstVars

\* prepares the environment delivers: both rounds and values, a quorum
\* of operators, and one signed by two operators
PrepareInputs ==
    {PrepareMsg(r, v, <<o>>) : r \in 1..2, v \in Values, o \in 1..Quorum}
        \cup {PrepareMsg(1, "v1", <<1, 2>>)}

\* PrepareMsgPipeline on any delivered prepare: the validation error ends
\* the run and is returned; else "add prepare msg" and "upon prepare msg"
PrepareMsgPipelineRun(d, m) ==
    /\ pipelinePc[d] = NoMsg
    /\ m \in PrepareInputs
    /\ \E err \in {prepareMsgValidationPipeline(ProposalAcceptedForCurrentRound, Round,
                                                 FirstHeight, m)} :
        /\ prepareErr' = [prepareErr EXCEPT ![d] = err]
        /\ IF err = ErrNil
           THEN LET container == AddMessage(ContainersMap["prepare"], m)
                    l == longestUniqueSignersForRoundAndValue(container, m.round, m.data)
                IN  /\ ContainersMap' = [ContainersMap EXCEPT !["prepare"] = container]
                    /\ IF HasQuorum(Len(l[1]))
                       THEN /\ PreparedRound' = m.round
                            /\ PreparedValue' = m.data
                            /\ Stage' = "prepare"
                       ELSE UNCHANGED <<PreparedRound, PreparedValue, Stage>>
           ELSE UNCHANGED <<ContainersMap, PreparedRound, PreparedValue, Stage>>
    /\ UNCHANGED <<Round, ProposalAcceptedForCurrentRound, processCommitQuorumOnce,
                   decidedMsg, decidedSignals, pipelinePc, proposalInputs, commitInputs,
                   proposalErr, prepareSent>>
    /\ UNCHANGED nonInstVars

PrepareInit == ControllerInit /\ InstanceNew("few", "none") /\ NetworkNew({})
    /\ ShareNone /\ LusNone /\ FutureNew /\ WorkerNone /\ HistoryNone /\ QuorumNone /\ CallNone /\ RunnerNone

PrepareNext ==
    \/ \E m \in ProposalFew : ProposalMsgPipeline("d1", m)
    \/ UponProposalMsg("d1")
    \/ \E m \in PrepareInputs : PrepareMsgPipelineRun("d1", m)
    \/ onTimeout

SpecPrepare == PrepareInit /\ [][PrepareNext]_vars

\* the highest round above the current one that f+1 signers have reached, NoRound if none
partialQuorumRound(container, stateRound) ==
    LET future(r) == {k \in DOMAIN container : container[k].round >= r}
        asked(r) == UNION {Range(container[k].signers) : k \in future(r)}
        rounds == {r \in Rounds : r > stateRound /\ HasPartialQuorum(Cardinality(asked(r)))}
    IN  IF rounds = {} THEN NoRound ELSE Max(rounds)

\* ChangeRoundMsgPipeline: validate, add, and on f+1 round changes for future
\* rounds move to that round
ChangeRoundMsgPipeline(d, m) ==
    /\ pipelinePc[d] = NoMsg
    /\ proposalInputs = "few"
    /\ m \in RoundChangeFew
    /\ m.type = "roundchange" /\ m.height = FirstHeight
    /\ Len(m.signers) = 1 /\ Range(m.signers) \subseteq Operators
    /\ LET container == AddMessage(ContainersMap["roundchange"], m)
           r == partialQuorumRound(container, Round)
       IN  /\ ContainersMap' = [ContainersMap EXCEPT !["roundchange"] = container]
           /\ IF r # NoRound /\ decidedMsg = NoMsg
              THEN /\ Round' = r
                   /\ ProposalAcceptedForCurrentRound' = NoMsg
                   /\ Stage' = "changeRound"
              ELSE UNCHANGED <<Round, ProposalAcceptedForCurrentRound, Stage>>
    /\ UNCHANGED <<PreparedRound, PreparedValue, processCommitQuorumOnce,
                   decidedMsg, decidedSignals, pipelinePc, proposalInputs, commitInputs,
                   proposalErr, prepareErr, prepareSent>>
    /\ UNCHANGED nonInstVars

InstanceInit == ControllerInit /\ InstanceNew("few", "few") /\ NetworkNew({})
    /\ ShareNone /\ LusNone /\ FutureNew /\ WorkerNone /\ HistoryNone /\ QuorumNone /\ CallNone /\ RunnerNone

InstanceNext ==
    \/ \E m \in ProposalFew : ProposalMsgPipeline("d1", m)
    \/ UponProposalMsg("d1")
    \/ \E m \in PrepareFew : PrepareMsgPipeline("d1", m)
    \/ \E m \in RoundChangeFew : ChangeRoundMsgPipeline("d1", m)
    \/ \E m \in CommitFew : CommitMsgValidationPipeline("d1", m)
    \/ uponCommitMsg("d1")
    \/ onTimeout

SpecInstance == InstanceInit /\ [][InstanceNext]_vars

------------------------------------------------------------------------------
(***************************************************************************)
(* One goroutine handing whole messages to the instance: every combined    *)
(* pipeline runs from its first step to its last before the next message.  *)
(***************************************************************************)
\* the instance state a pipeline reads and writes
InstanceState ==
    [Round |-> Round, accepted |-> ProposalAcceptedForCurrentRound,
     PreparedRound |-> PreparedRound, PreparedValue |-> PreparedValue,
     Stage |-> Stage, ContainersMap |-> ContainersMap,
     once |-> processCommitQuorumOnce, decidedMsg |-> decidedMsg,
     signals |-> decidedSignals, prepares |-> prepareSent]

\* mutant of CommitMsgPipelineRun: the quorum is processed on every commit
CommitMsgPipelineRunEveryTime(st, m) ==
    IF ~CommitMsgValidation(m) THEN st
    ELSE LET added == [st EXCEPT !.ContainersMap["commit"] = AddMessage(@, m)]
             q == commitQuorumForCurrentRoundValue(m.round, added.ContainersMap["commit"],
                                                   m.data)
             agg == aggregateCommitMsgs(q[2])
         IN  IF q[1] /\ agg # NoMsg
             THEN [added EXCEPT !.once = TRUE, !.decidedMsg = agg, !.Stage = "decided",
                                !.signals = @ + 1]
             ELSE added

\* CommitMsgPipeline = Combine(CommitMsgValidationPipeline, uponCommitMsg):
\* validate, "add commit msg", then the quorum check behind the one-shot guard
CommitMsgPipelineRun(st, m) ==
    IF ~CommitMsgValidation(m) THEN st
    ELSE LET added == [st EXCEPT !.ContainersMap["commit"] = AddMessage(@, m)]
             q == commitQuorumForCurrentRoundValue(m.round, added.ContainersMap["commit"],
                                                   m.data)
             agg == aggregateCommitMsgs(q[2])
         IN  IF q[1] /\ ~st.once
             THEN IF agg # NoMsg
                  THEN [added EXCEPT !.once = TRUE, !.decidedMsg = agg, !.Stage = "decided",
                                     !.signals = @ + 1]
                  ELSE [added EXCEPT !.once = TRUE]
             ELSE added

\* ProposalMsgPipeline = Combine(validation, "add proposal msg", UponProposalMsg)
ProposalMsgPipelineRun(st, m) ==
    IF proposalMsgValidationPipeline(st.accepted, st.Round, FirstHeight, m) # ErrNil THEN st
    ELSE [st EXCEPT !.ContainersMap["proposal"] = AddMessage(@, m),
                    !.accepted = m,
                    !.Round = IF m.round > @ THEN m.round ELSE @,
                    !.Stage = "proposal",
                    !.prepares = Append(@, GeneratePrepareMessage(
                                               IF m.round > st.Round THEN m.round
                                               ELSE st.Round, m))]

\* the pipeline the message type selects
PipelineRun(st, m) ==
    IF m.type = "commit" THEN CommitMsgPipelineRun(st, m)
    ELSE IF m.type = "proposal" THEN ProposalMsgPipelineRun(st, m)
    ELSE st

SequentialInputs == ProposalInputs \cup CommitInputs

\* one message handled from validation to the end of its pipeline
SequentialProcess(m) ==
    /\ m \in SequentialInputs
    /\ Len(ContainersMap["commit"]) < MaxCommits
    /\ \E st \in {PipelineRun(InstanceState, m)} :
        /\ Round' = st.Round
        /\ ProposalAcceptedForCurrentRound' = st.accepted
        /\ PreparedRound' = st.PreparedRound
        /\ PreparedValue' = st.PreparedValue
        /\ Stage' = st.Stage
        /\ ContainersMap' = st.ContainersMap
        /\ processCommitQuorumOnce' = st.once
        /\ decidedMsg' = st.decidedMsg
        /\ decidedSignals' = st.signals
        /\ prepareSent' = st.prepares
    /\ UNCHANGED <<pipelinePc, proposalInputs, commitInputs, proposalErr, prepareErr>>
    /\ UNCHANGED nonInstVars

SequentialInit == ControllerInit /\ InstanceNew("few", "all") /\ NetworkNew({})
    /\ ShareNone /\ LusNone /\ FutureNew /\ WorkerNone /\ HistoryNone /\ QuorumNone /\ CallNone /\ RunnerNone

SequentialNext ==
    \/ \E m \in ProposalFew \cup CommitUniverse : SequentialProcess(m)
    \/ onTimeout

SpecSequential == SequentialInit /\ [][SequentialNext]_vars

------------------------------------------------------------------------------
(***************************************************************************)
(* A committee running one instance: each honest operator runs the         *)
(* handlers above on the messages broadcast so far; an operator in byz     *)
(* signs whatever it likes.                                                *)
(***************************************************************************)
NetMaxRound == 2
NetRounds == 1..NetMaxRound
\* the value each operator is started with
StartValue(n) == IF n % 2 = 1 THEN "v1" ELSE "v2"
Honest == Operators \ byz

\* messages an operator can receive: broadcast by an honest operator, or
\* signed by a faulty one
DeliverablePrepares(r, v) ==
    {m \in sent : m.type = "prepare" /\ m.round = r /\ m.data = v}
        \cup {PrepareMsg(r, v, <<b>>) : b \in byz}
DeliverableCommits(r, v) ==
    {m \in sent : m.type = "commit" /\ m.round = r /\ m.data = v}
        \cup {CommitMsg(r, v, <<b>>) : b \in byz}
DeliverableRoundChanges(r) ==
    {m \in sent : m.type = "roundchange" /\ m.round = r}
        \cup {RoundChangeMsg(r, <<b>>, p[1], p[2]) :
                 b \in byz,
                 p \in {NotPrepared} \cup ((1..(r - 1)) \X Values)}
\* the messages of a set in some order: a container holding them
RECURSIVE SetToSeq(_)
SetToSeq(S) ==
    IF S = {} THEN <<>>
    ELSE LET m == CHOOSE x \in S : TRUE IN <<m>> \o SetToSeq(S \ {m})
\* quorum-long lists of round changes by distinct signers, any of them first
RoundChangeQuorums(r) ==
    UNION {{<<f>> \o SetToSeq(RC \ {f}) : f \in RC} :
             RC \in {X \in SUBSET DeliverableRoundChanges(r) :
                       /\ Cardinality(X) = Quorum
                       /\ \A x, y \in X : x # y => x.signers # y.signers}}
PrepareCertificates(r) ==
    {<<>>} \cup {SetToSeq(DeliverablePrepares(pr, v)) : pr \in 1..(r - 1), v \in Values}
DeliverableProposals(r) ==
    {m \in sent : m.type = "proposal" /\ m.round = r}
        \cup IF RoundLeader(FirstHeight, r) \notin byz THEN {}
             ELSE IF r = 1
             THEN {ProposalMsg(1, v, <<RoundLeader(FirstHeight, 1)>>, <<>>, <<>>) : v \in Values}
             ELSE {ProposalMsg(r, v, <<RoundLeader(FirstHeight, r)>>, rcj, pj) :
                      v \in Values, rcj \in RoundChangeQuorums(r),
                      pj \in PrepareCertificates(r)}

\* Instance.Start at the leader of the first round: broadcast the proposal
NetStart(n) ==
    /\ n \in Honest
    /\ n = RoundLeader(FirstHeight, FirstRound)
    /\ ~\E m \in sent : m.type = "proposal" /\ m.signers = <<n>>
    /\ sent' = sent \cup {ProposalMsg(FirstRound, StartValue(n), <<n>>, <<>>, <<>>)}
    /\ UNCHANGED <<byz, nRound, nAccepted, nPreparedRound, nPreparedValue, nDecided, nStored>>
    /\ UNCHANGED nonNetVars

\* a proposal handler that accepts the proposal and broadcasts no prepare
NetProposalMsgSilent(n, r) ==
    /\ n \in Honest
    /\ nDecided[n] = NoMsg
    /\ nAccepted[n] = NoMsg /\ r = nRound[n]
    /\ \E v \in Values :
        /\ \E m \in DeliverableProposals(r) :
              /\ m.data = v
              /\ proposalMsgValidationPipeline(nAccepted[n], nRound[n], FirstHeight, m) = "nil"
        /\ nAccepted' = [nAccepted EXCEPT ![n] =
                             ProposalMsg(r, v, <<RoundLeader(FirstHeight, r)>>, <<>>, <<>>)]
    /\ UNCHANGED <<byz, nRound, nPreparedRound, nPreparedValue, nDecided, nStored, sent>>
    /\ UNCHANGED nonNetVars

\* ProposalMsgPipeline and UponProposalMsg at operator n: validate, accept,
\* bump into the proposal's round, broadcast the prepare
NetProposalMsg(n, r) ==
    /\ n \in Honest
    /\ nDecided[n] = NoMsg
    /\ \/ nAccepted[n] = NoMsg /\ r = nRound[n]
       \/ nAccepted[n] # NoMsg /\ r > nRound[n]
    /\ \E v \in Values :
        /\ \E m \in DeliverableProposals(r) :
              /\ m.data = v
              /\ proposalMsgValidationPipeline(nAccepted[n], nRound[n], FirstHeight, m) = "nil"
        /\ nAccepted' = [nAccepted EXCEPT ![n] =
                             ProposalMsg(r, v, <<RoundLeader(FirstHeight, r)>>, <<>>, <<>>)]
        /\ nRound' = [nRound EXCEPT ![n] = IF r > @ THEN r ELSE @]
        /\ sent' = sent \cup {PrepareMsg(r, v, <<n>>)}
    /\ UNCHANGED <<byz, nPreparedRound, nPreparedValue, nDecided, nStored>>
    /\ UNCHANGED nonNetVars

\* PrepareMsgPipeline at operator n: a quorum of prepares for the accepted
\* proposal of its round; record prepared, broadcast the commit
NetPrepareMsg(n) ==
    /\ n \in Honest
    /\ nDecided[n] = NoMsg
    /\ nAccepted[n] # NoMsg
    /\ CommitMsg(nRound[n], nAccepted[n].data, <<n>>) \notin sent
    /\ \E container \in {SetToSeq(DeliverablePrepares(nRound[n], nAccepted[n].data))} :
       \E l \in {longestUniqueSignersForRoundAndValue(container, nRound[n],
                                                      nAccepted[n].data)} :
           /\ \A k \in DOMAIN container :
                 prepareMsgValidationPipeline(nAccepted[n], nRound[n], FirstHeight,
                                              container[k]) = "nil"
           /\ HasQuorum(Len(l[1]))
    /\ nPreparedRound' = [nPreparedRound EXCEPT ![n] = nRound[n]]
    /\ nPreparedValue' = [nPreparedValue EXCEPT ![n] = nAccepted[n].data]
    /\ sent' = sent \cup {CommitMsg(nRound[n], nAccepted[n].data, <<n>>)}
    /\ UNCHANGED <<byz, nRound, nAccepted, nDecided, nStored>>
    /\ UNCHANGED nonNetVars

\* CommitMsgPipeline at operator n, its commit container holding the
\* deliverable commits of round r: uponCommitMsg on a commit of round r and
\* value v
NetCommitMsg(n, r, v) ==
    /\ n \in Honest
    /\ nDecided[n] = NoMsg
    /\ \E container \in {SetToSeq(UNION {DeliverableCommits(r, w) : w \in Values})} :
       \E q \in {commitQuorumForCurrentRoundValue(r, container, v)} :
       \E agg \in {aggregateCommitMsgs(q[2])} :
            /\ \A k \in DOMAIN container : CommitMsgValidation(container[k])
            /\ q[1]
            /\ agg # NoMsg
            /\ nDecided' = [nDecided EXCEPT ![n] = agg]
    /\ UNCHANGED <<byz, nRound, nAccepted, nPreparedRound, nPreparedValue, nStored, sent>>
    /\ UNCHANGED nonNetVars

\* instanceStageChange at operator n, Decided stage: the aggregated commit is
\* saved as the decided message
NetStageDecided(n) ==
    /\ n \in Honest
    /\ nDecided[n] # NoMsg
    /\ nStored[n] = NoMsg
    /\ nStored' = [nStored EXCEPT ![n] = nDecided[n]]
    /\ UNCHANGED <<byz, nRound, nAccepted, nPreparedRound, nPreparedValue, nDecided, sent>>
    /\ UNCHANGED nonNetVars

\* a timer expiry that moves to the next round and broadcasts no round change
NetTimeoutSilent(n) ==
    /\ n \in Honest
    /\ nDecided[n] = NoMsg
    /\ nRound[n] < NetMaxRound
    /\ nRound' = [nRound EXCEPT ![n] = @ + 1]
    /\ nAccepted' = [nAccepted EXCEPT ![n] = NoMsg]
    /\ UNCHANGED <<byz, nPreparedRound, nPreparedValue, nDecided, nStored, sent>>
    /\ UNCHANGED nonNetVars

\* round timer expiry at operator n: next round, no accepted proposal,
\* broadcast a round change carrying the prepared round and value
NetTimeout(n) ==
    /\ n \in Honest
    /\ nDecided[n] = NoMsg
    /\ nRound[n] < NetMaxRound
    /\ nRound' = [nRound EXCEPT ![n] = @ + 1]
    /\ nAccepted' = [nAccepted EXCEPT ![n] = NoMsg]
    /\ sent' = sent \cup {RoundChangeMsg(nRound[n] + 1, <<n>>, nPreparedRound[n],
                                         nPreparedValue[n])}
    /\ UNCHANGED <<byz, nPreparedRound, nPreparedValue, nDecided, nStored>>
    /\ UNCHANGED nonNetVars

\* the proposals the leader n of round r can build from a quorum of round
\* changes: the highest prepared value, or its own, with the justification
LeaderProposals(n, r) ==
    {m \in {LET highest == highestPrepared(rcj)
             IN  IF highest = NoMsg
                 THEN ProposalMsg(r, StartValue(n), <<n>>, rcj, <<>>)
                 ELSE ProposalMsg(r, highest.pv, <<n>>, rcj,
                                  SetToSeq(DeliverablePrepares(highest.pr, highest.pv))) :
             rcj \in RoundChangeQuorums(r)} :
        Justify(FirstHeight, r, m.rcj, m.pj, m.data) = "nil"}

\* the leader of a round above the first, holding a quorum of round changes:
\* broadcast a justified proposal for the value v
NetLeaderPropose(n, v) ==
    /\ n \in Honest
    /\ nDecided[n] = NoMsg
    /\ nRound[n] > FirstRound
    /\ n = RoundLeader(FirstHeight, nRound[n])
    /\ ~\E m \in sent : m.type = "proposal" /\ m.signers = <<n>> /\ m.round = nRound[n]
    /\ LET P == {m \in LeaderProposals(n, nRound[n]) : m.data = v}
       IN  /\ P # {}
           /\ sent' = sent \cup {CHOOSE m \in P : TRUE}
    /\ UNCHANGED <<byz, nRound, nAccepted, nPreparedRound, nPreparedValue, nDecided, nStored>>
    /\ UNCHANGED nonNetVars

\* one faulty operator: the leader of round 1, the leader of round 2, or
\* an operator that leads neither
FaultySets == {{RoundLeader(FirstHeight, 1)}, {RoundLeader(FirstHeight, 2)}, {CommitteeSize}}

NetworkInit ==
    /\ ControllerInit
    /\ InstanceNew("none", "none")
    /\ \E b \in FaultySets : NetworkNew(b)
    /\ ShareNone /\ LusNone /\ FutureNew /\ WorkerNone /\ HistoryNone /\ QuorumNone /\ CallNone /\ RunnerNone

NetworkNext ==
    \/ \E n \in Operators : NetStart(n)
    \/ \E n \in Operators : \E r \in NetRounds : NetProposalMsg(n, r)
    \/ \E n \in Operators : NetPrepareMsg(n)
    \/ \E n \in Operators : \E r \in NetRounds : \E v \in Values : NetCommitMsg(n, r, v)
    \/ \E n \in Operators : NetTimeout(n)
    \/ \E n \in Operators : \E v \in Values : NetLeaderPropose(n, v)

SpecNetwork == NetworkInit /\ [][NetworkNext]_vars

------------------------------------------------------------------------------
(***************************************************************************)
(* The happy path: four honest operators, and every message is handled     *)
(* before a round timer expires.  Each operator's message loop keeps       *)
(* taking the messages queued for it, so a handler that stays enabled is   *)
(* eventually run.                                                         *)
(***************************************************************************)
HappyInit ==
    /\ ControllerInit
    /\ InstanceNew("none", "none")
    /\ NetworkNew({})
    /\ ShareNone /\ LusNone /\ FutureNew /\ WorkerNone /\ HistoryNone /\ QuorumNone /\ CallNone /\ RunnerNone

HappyNext ==
    \/ \E n \in Operators : NetStart(n)
    \/ \E n \in Operators : NetProposalMsg(n, FirstRound)
    \/ \E n \in Operators : NetPrepareMsg(n)
    \/ \E n \in Operators : \E v \in Values : NetCommitMsg(n, FirstRound, v)
    \/ \E n \in Operators : NetStageDecided(n)

HappyFairness ==
    \A n \in Operators :
        /\ WF_vars(NetStart(n))
        /\ WF_vars(NetProposalMsg(n, FirstRound))
        /\ WF_vars(NetPrepareMsg(n))
        /\ WF_vars(\E v \in Values : NetCommitMsg(n, FirstRound, v))
        /\ WF_vars(NetStageDecided(n))

SpecHappy == HappyInit /\ [][HappyNext]_vars /\ HappyFairness

------------------------------------------------------------------------------
(***************************************************************************)
(* Round change on leader failure: operators 1 and 2 start at once,        *)
(* operators 3 and 4 one round timeout later, when the round-1 timers of   *)
(* 1 and 2 have expired.  After that every message is handled before a     *)
(* timer expires; an operator's workers take its queued messages in any    *)
(* order.                                                                  *)
(***************************************************************************)
LateOperators == {3, 4}

\* NewInstance at the operators that start at once; the late ones have no
\* instance yet (NoRound)
NetworkLate ==
    /\ byz = {}
    /\ nRound = [n \in Operators |-> IF n \in LateOperators THEN NoRound ELSE FirstRound]
    /\ nAccepted = [n \in Operators |-> NoMsg]
    /\ nPreparedRound = [n \in Operators |-> NoRound]
    /\ nPreparedValue = [n \in Operators |-> NoValue]
    /\ nDecided = [n \in Operators |-> NoMsg]
    /\ nStored = [n \in Operators |-> NoMsg]
    /\ sent = {}

\* the round-1 timer of an operator that started at once expires while the
\* late operators have not started; the leader proposed when it started
RoundChangeTimeout(n) ==
    /\ n \notin LateOperators
    /\ nRound[n] = FirstRound
    /\ \A m \in LateOperators : nRound[m] = NoRound
    /\ \E m \in sent : m.type = "proposal" /\ m.round = FirstRound
    /\ NetTimeout(n)

\* a late operator starts its instance, one round timeout after the others
RoundChangeLateStart(n) ==
    /\ n \in LateOperators
    /\ nRound[n] = NoRound
    /\ \A m \in Operators \ LateOperators : nRound[m] > FirstRound
    /\ nRound' = [nRound EXCEPT ![n] = FirstRound]
    /\ UNCHANGED <<byz, nAccepted, nPreparedRound, nPreparedValue, nDecided, nStored, sent>>
    /\ UNCHANGED nonNetVars

\* ChangeRoundMsgPipeline at operator n: f+1 round changes for a round above
\* its own move it to that round, and it broadcasts its round change
NetChangeRoundPartialQuorum(n) ==
    /\ n \in Honest
    /\ nRound[n] # NoRound
    /\ nDecided[n] = NoMsg
    /\ \E container \in {SetToSeq({m \in sent : m.type = "roundchange"})} :
       \E r \in {partialQuorumRound(container, nRound[n])} :
           /\ r # NoRound
           /\ nRound' = [nRound EXCEPT ![n] = r]
           /\ nAccepted' = [nAccepted EXCEPT ![n] = NoMsg]
           /\ sent' = sent \cup {RoundChangeMsg(r, <<n>>, nPreparedRound[n],
                                                 nPreparedValue[n])}
    /\ UNCHANGED <<byz, nPreparedRound, nPreparedValue, nDecided, nStored>>
    /\ UNCHANGED nonNetVars

RoundChangeInit ==
    /\ ControllerInit
    /\ InstanceNew("none", "none")
    /\ NetworkLate
    /\ ShareNone /\ LusNone /\ FutureNew /\ WorkerNone /\ HistoryNone /\ QuorumNone /\ CallNone /\ RunnerNone

RoundChangeNext ==
    \/ \E n \in Operators : NetStart(n)
    \/ \E n \in Operators : RoundChangeTimeout(n)
    \/ \E n \in Operators : RoundChangeLateStart(n)
    \/ \E n \in Operators : NetChangeRoundPartialQuorum(n)
    \/ \E n \in Operators : \E v \in Values : NetLeaderPropose(n, v)
    \/ \E n \in Operators : \E r \in NetRounds : NetProposalMsg(n, r)
    \/ \E n \in Operators : NetPrepareMsg(n)
    \/ \E n \in Operators : \E r \in NetRounds : \E v \in Values : NetCommitMsg(n, r, v)

\* every handler moves its operator forward, so it is enough that some
\* pending handler is eventually run
RoundChangeFairness == WF_vars(RoundChangeNext)

SpecRoundChange == RoundChangeInit /\ [][RoundChangeNext]_vars /\ RoundChangeFairness

------------------------------------------------------------------------------
ControllerNext ==
    \/ \E p \in Starters : StartInstance(p)
    \/ \E p \in Starters : StartInstanceSetHeight(p)
    \/ \E p \in Starters : startInstanceWithOptions(p)
    \/ \E p \in Starters : InstanceDecided(p)
    \/ \E p \in Starters : instanceLoop(p)
    \/ \E p \in Starters : afterLoop(p)
    \/ \E p \in {"i1"} : InitHandlers(p)
    \/ \E p \in {"i1"} : setInitialHeightRead(p)
    \/ \E p \in {"i1"} : setInitialHeight(p)
    \/ \E p \in {"i1"} : InitChangeRound(p)
    \/ \E p \in {"i1"} : InitLoadState(p)
    \/ \E p \in {"i1"} : InitWaiting(p)
    \/ \E p \in {"i1"} : InitWaitForMinPeers(p)
    \/ \E p \in {"i1"} : InitSyncDecided(p)
    \/ \E h \in Heights : processDecidedMsg(h)
    \/ OnForkStart
    \/ OnForkStop
    \/ OnForkNil
    \/ OnForkReturn

\* two goroutines calling Init on one controller, and an OnFork call
ConcurrentInitNext ==
    \/ \E p \in Initers : InitHandlers(p)
    \/ \E p \in Initers : setInitialHeightRead(p)
    \/ \E p \in Initers : setInitialHeight(p)
    \/ \E p \in Initers : InitChangeRound(p)
    \/ \E p \in Initers : InitLoadState(p)
    \/ \E p \in Initers : InitWaiting(p)
    \/ \E p \in Initers : InitWaitForMinPeers(p)
    \/ \E p \in Initers : InitSyncDecided(p)
    \/ OnForkStart
    \/ OnForkStop
    \/ OnForkReturn

\* the controller alone: its instances are the abstract ones of instStage
ControllerOnlyInit == ControllerInit /\ InstanceNew("none", "none") /\ NetworkNew({})
    /\ ShareNone /\ LusNone /\ FutureNew /\ WorkerNone /\ HistoryNone /\ QuorumNone /\ CallNone /\ RunnerNone

SpecController == ControllerOnlyInit /\ [][ControllerNext]_vars

SpecConcurrentInit == ControllerOnlyInit /\ [][ConcurrentInitNext]_vars

\* one duty goroutine, one Init call, an OnFork call and the incoming messages
QueueNext ==
    \/ StartInstance("s1")
    \/ StartInstanceSetHeight("s1")
    \/ startInstanceWithOptions("s1")
    \/ InstanceDecided("s1")
    \/ instanceLoop("s1")
    \/ afterLoop("s1")
    \/ InitHandlers("i1")
    \/ setInitialHeightRead("i1")
    \/ setInitialHeight("i1")
    \/ InitChangeRound("i1")
    \/ InitLoadState("i1")
    \/ InitWaiting("i1")
    \/ InitWaitForMinPeers("i1")
    \/ InitSyncDecided("i1")
    \/ \E h \in Heights : processDecidedMsg(h)
    \/ OnForkStart
    \/ OnForkStop
    \/ OnForkNil
    \/ OnForkReturn
    \/ \E k \in QueueIndices : ProcessMsg(k)

SpecQueue == ControllerOnlyInit /\ [][QueueNext]_vars

\* one StartInstance caller, Init, OnFork, and decided messages that are
\* queued and consumed; a message that was in the queue when OnFork was
\* called is not delivered a second time
ForkNext ==
    \/ StartInstance("s1")
    \/ StartInstanceSetHeight("s1")
    \/ startInstanceWithOptions("s1")
    \/ InstanceDecided("s1")
    \/ instanceLoop("s1")
    \/ afterLoop("s1")
    \/ InitHandlers("i1")
    \/ setInitialHeightRead("i1")
    \/ setInitialHeight("i1")
    \/ InitChangeRound("i1")
    \/ InitLoadState("i1")
    \/ InitWaiting("i1")
    \/ InitWaitForMinPeers("i1")
    \/ InitSyncDecided("i1")
    \/ OnForkStart
    \/ OnForkStop
    \/ OnForkNil
    \/ OnForkReturn
    \/ \E k \in DecidedIndices \ forkQueued : ProcessMsg(k)
    \/ \E k \in DecidedIndices : ConsumeDecided(k)

SpecFork == ControllerOnlyInit /\ [][ForkNext]_vars

------------------------------------------------------------------------------
(***************************************************************************)
(* ShareFromValidatorEvent: operator/validator/utils.go                    *)
(***************************************************************************)
\* committee sizes of the events handed in
CommitteeSizes == {4, 7, 10, 13}

\* a validator-added event: n operators (ids 1..n); own is the position of
\* this node's operator key in it (0: this node is not in the committee);
\* the flags say which of the lookups and decodings succeed
Events ==
    {e \in [n : CommitteeSizes, own : 0..Max(CommitteeSizes), operatorData : BOOLEAN,
            publicKey : BOOLEAN, privateKey : BOOLEAN, encryptedKey : BOOLEAN] :
        e.own <= e.n}

ShareError(e) == [err |-> e]

\* ShareFromValidatorEvent
ShareFromValidatorEventResult(e) ==
    IF ~e.operatorData THEN ShareError("could not set operator public keys")
    ELSE IF ~e.publicKey THEN ShareError("failed to deserialize share public key")
    ELSE IF e.own # 0 /\ ~e.privateKey THEN ShareError("could not find operator private key")
    ELSE IF e.own # 0 /\ ~e.encryptedKey THEN ShareError("failed to decrypt share private key")
    ELSE LET f == (e.n - 1) \div 3
         IN  [err |-> ErrNil, OperatorID |-> e.own, Committee |-> 1..e.n,
              Quorum |-> 3 * f, PartialQuorum |-> 2 * f]

\* the event handler builds the share of the event it was handed
ShareFromValidatorEvent ==
    /\ share = NoShare
    /\ share' = ShareFromValidatorEventResult(event)
    /\ UNCHANGED <<event, lusVars, futureVars, workerVars, historyVars, quorumVars, callVars, runnerVars>>
    /\ UNCHANGED nonLibVars

ShareInit ==
    /\ ControllerInit /\ InstanceNew("none", "none") /\ NetworkNew({})
    /\ LusNone /\ FutureNew /\ WorkerNone /\ HistoryNone /\ QuorumNone /\ CallNone /\ RunnerNone
    /\ event \in Events
    /\ share = NoShare

ShareNext == ShareFromValidatorEvent

SpecShare == ShareInit /\ [][ShareNext]_vars

------------------------------------------------------------------------------
(***************************************************************************)
(* longestUniqueSignersForRoundAndValue over containers that also hold     *)
(* aggregated messages (more than one signer each).                        *)
(***************************************************************************)
LusMaxLen == 3
LusMaxSigners == 2

\* signer lists of the stored messages: non-empty, no operator twice
LusSignerLists ==
    {SetToSeq(S) : S \in {T \in SUBSET Operators : Cardinality(T) \in 1..LusMaxSigners}}
LusMsgs ==
    {CommitMsg(1, v, sg) : v \in Values, sg \in LusSignerLists}
        \cup {CommitMsg(2, "v1", <<sg>>) : sg \in 1..2}

\* MessageContainer.AddMessage on the container
LusAddMessage(m) ==
    /\ Len(lusContainer) < LusMaxLen
    /\ lusContainer' = AddMessage(lusContainer, m)
    /\ lusRet' = NoRet
    /\ UNCHANGED <<shareVars, futureVars, workerVars, historyVars, quorumVars, callVars, runnerVars>>
    /\ UNCHANGED nonLibVars

\* a call of longestUniqueSignersForRoundAndValue(container, round, value)
LusCall(r, v) ==
    /\ \E ret \in {longestUniqueSignersForRoundAndValue(lusContainer, r, v)} :
          lusRet' = [round |-> r, value |-> v, signers |-> ret[1], msgs |-> ret[2]]
    /\ UNCHANGED <<lusContainer, shareVars, futureVars, workerVars, historyVars, quorumVars, callVars, runnerVars>>
    /\ UNCHANGED nonLibVars

LusInit ==
    /\ ControllerInit /\ InstanceNew("none", "none") /\ NetworkNew({})
    /\ ShareNone /\ LusNone /\ FutureNew /\ WorkerNone /\ HistoryNone /\ QuorumNone /\ CallNone /\ RunnerNone

LusNext ==
    \/ \E m \in LusMsgs : LusAddMessage(m)
    \/ \E r \in 1..2 : \E v \in Values : LusCall(r, v)

SpecLus == LusInit /\ [][LusNext]_vars

------------------------------------------------------------------------------
(***************************************************************************)
(* Future messages: protocol/qbft/controller/future_msg.go                 *)
(***************************************************************************)
MaxFutureHeight == 3

\* signers of incoming messages: the committee and one operator outside it
FutureSigners == 1..(CommitteeSize + 1)
FutureMsgs ==
    {[height |-> h, signers |-> sg] :
        h \in 0..MaxFutureHeight,
        sg \in {<<sg1>> : sg1 \in FutureSigners} \cup {<<1, 2>>}}

\* mutant of validateFutureMsg: the signature is not verified
validateFutureMsgUnsigned(msg) ==
    IF Len(msg.signers) # 1 THEN "allows 1 signer"
    ELSE ErrNil

\* validateFutureMsg: one signer, whose signature verifies against the
\* committee's operators
validateFutureMsg(msg) ==
    IF Len(msg.signers) # 1 THEN "allows 1 signer"
    ELSE IF ~(Range(msg.signers) \subseteq Operators) THEN "msg signature invalid"
    ELSE ErrNil

\* addHigherHeightMsg: <<the container left behind, whether msg was added>>
addHigherHeightMsg(container, localHeight, msg) ==
    LET kept == {signer \in DOMAIN container : container[signer] > localHeight}
        signerExists == msg.signers[1] \in kept
        cleanedQueue ==
            [signer \in kept \cup (IF signerExists THEN {} ELSE {msg.signers[1]}) |->
                IF signer \in kept THEN container[signer] ELSE msg.height]
    IN  <<cleanedQueue, ~signerExists>>

\* mutant of f1SyncTrigger: a quorum is asked for
f1SyncTriggerQuorum(container) == HasQuorum(Cardinality(DOMAIN container))

\* f1SyncTrigger
f1SyncTrigger(container) == HasPartialQuorum(Cardinality(DOMAIN container))

\* UponFutureMsg
UponFutureMsg(msg) ==
    /\ futureMsg' = msg
    /\ IF validateFutureMsg(msg) # ErrNil
       THEN /\ futureRes' = "invalid future msg"
            /\ UNCHANGED FutureMsgsContainer
       ELSE \E added \in {addHigherHeightMsg(FutureMsgsContainer, Height, msg)} :
            /\ FutureMsgsContainer' = added[1]
            /\ futureRes' = IF ~added[2] THEN "discarded future msg"
                            ELSE IF f1SyncTrigger(added[1]) THEN "SyncHighestDecided"
                            ELSE ErrNil
    /\ UNCHANGED <<Height, shareVars, lusVars, workerVars, historyVars, quorumVars, callVars, runnerVars>>
    /\ UNCHANGED nonLibVars

\* the message handler hands a message above the controller's height to
\* UponFutureMsg
ProcessFutureMsg(msg) ==
    /\ msg.height > Height
    /\ UponFutureMsg(msg)

\* the controller moves on to the next height
NextHeight ==
    /\ Height < MaxFutureHeight - 1
    /\ Height' = Height + 1
    /\ UNCHANGED <<FutureMsgsContainer, futureMsg, futureRes, shareVars, lusVars, workerVars, historyVars, quorumVars, callVars, runnerVars>>
    /\ UNCHANGED nonLibVars

FutureInit ==
    /\ ControllerInit /\ InstanceNew("none", "none") /\ NetworkNew({})
    /\ ShareNone /\ LusNone /\ FutureNew /\ WorkerNone /\ HistoryNone /\ QuorumNone /\ CallNone /\ RunnerNone

FutureNext ==
    \/ \E msg \in FutureMsgs : ProcessFutureMsg(msg)
    \/ NextHeight

SpecFuture == FutureInit /\ [][FutureNext]_vars

------------------------------------------------------------------------------
(***************************************************************************)
(* The message worker: a bounded queue read by worker goroutines.          *)
(***************************************************************************)
MaxBuffer == 2
\* a nil *SSVMessage: what a receive from the closed, empty channel yields
NilMsg == 0
lib == <<shareVars, lusVars, futureVars>>

\* TryEnqueue: select { case w.queue <- msg: return true; default: return false }
\* a send on the closed channel panics; a goroutine parked in its select
\* takes the message at once; otherwise the buffer takes it if it has room
TryEnqueue ==
    /\ nextMsg <= MaxMsgs
    /\ nextMsg' = nextMsg + 1
    /\ \/ /\ wClosed
          /\ tryRes' = "panic"
          /\ UNCHANGED <<wQueue, wPc, wMsg, enqueued>>
       \/ /\ ~wClosed /\ wQueue = <<>>
          /\ \E w \in WorkerIds :
                /\ wPc[w] = "select"
                /\ wPc' = [wPc EXCEPT ![w] = "process"]
                /\ wMsg' = [wMsg EXCEPT ![w] = nextMsg]
          /\ enqueued' = enqueued \cup {nextMsg}
          /\ tryRes' = "true"
          /\ UNCHANGED wQueue
       \/ /\ ~wClosed /\ Len(wQueue) < wBuffer
          /\ wQueue' = Append(wQueue, nextMsg)
          /\ enqueued' = enqueued \cup {nextMsg}
          /\ tryRes' = "true"
          /\ UNCHANGED <<wPc, wMsg>>
       \/ /\ ~wClosed /\ Len(wQueue) >= wBuffer
          /\ tryRes' = "false"
          /\ UNCHANGED <<wQueue, wPc, wMsg, enqueued>>
    /\ UNCHANGED <<wBuffer, wClosed, wCancelled, handled, handledBy, closePc>>
    /\ UNCHANGED <<lib, historyVars, quorumVars, callVars, runnerVars>>
    /\ UNCHANGED nonLibVars

\* a receive whose message is never passed on to process
startWorkerDrop(w) ==
    /\ wPc[w] = "select"
    /\ \/ /\ wCancelled
          /\ wPc' = [wPc EXCEPT ![w] = "returned"]
          /\ UNCHANGED <<wQueue, wMsg>>
       \/ /\ wQueue # <<>>
          /\ wMsg' = [wMsg EXCEPT ![w] = Head(wQueue)]
          /\ wQueue' = Tail(wQueue)
          /\ wPc' = wPc
       \/ /\ wQueue = <<>> /\ wClosed
          /\ wMsg' = [wMsg EXCEPT ![w] = NilMsg]
          /\ wPc' = [wPc EXCEPT ![w] = "process"]
          /\ UNCHANGED wQueue
    /\ UNCHANGED <<wBuffer, wClosed, wCancelled, handled, handledBy, enqueued, tryRes,
                   closePc, nextMsg>>
    /\ UNCHANGED <<lib, historyVars, quorumVars, callVars, runnerVars>>
    /\ UNCHANGED nonLibVars

\* startWorker, the select: ctx.Done() returns; a receive takes the oldest
\* buffered message, or nil from the closed channel once it is empty
startWorker(w) ==
    /\ wPc[w] = "select"
    /\ \/ /\ wCancelled
          /\ wPc' = [wPc EXCEPT ![w] = "returned"]
          /\ UNCHANGED <<wQueue, wMsg>>
       \/ /\ wQueue # <<>>
          /\ wMsg' = [wMsg EXCEPT ![w] = Head(wQueue)]
          /\ wQueue' = Tail(wQueue)
          /\ wPc' = [wPc EXCEPT ![w] = "process"]
       \/ /\ wQueue = <<>> /\ wClosed
          /\ wMsg' = [wMsg EXCEPT ![w] = NilMsg]
          /\ wPc' = [wPc EXCEPT ![w] = "process"]
          /\ UNCHANGED wQueue
    /\ UNCHANGED <<wBuffer, wClosed, wCancelled, handled, handledBy, enqueued, tryRes,
                   closePc, nextMsg>>
    /\ UNCHANGED <<lib, historyVars, quorumVars, callVars, runnerVars>>
    /\ UNCHANGED nonLibVars

\* process: w.handler(msg)
process(w) ==
    /\ wPc[w] = "process"
    /\ handled' = handled \cup {wMsg[w]}
    /\ handledBy' = IF wMsg[w] \in Msgs
                    THEN [handledBy EXCEPT ![wMsg[w]] = Append(@, w)]
                    ELSE handledBy
    /\ wPc' = [wPc EXCEPT ![w] = "select"]
    /\ UNCHANGED <<wBuffer, wQueue, wClosed, wCancelled, wMsg, enqueued, tryRes, closePc,
                   nextMsg>>
    /\ UNCHANGED <<lib, historyVars, quorumVars, callVars, runnerVars>>
    /\ UNCHANGED nonLibVars

\* Close: close(w.queue)
CloseQueue ==
    /\ closePc = "idle"
    /\ wClosed' = TRUE
    /\ closePc' = "cancel"
    /\ UNCHANGED <<wBuffer, wQueue, wCancelled, wPc, wMsg, handled, handledBy, enqueued,
                   tryRes, nextMsg>>
    /\ UNCHANGED <<lib, historyVars, quorumVars, callVars, runnerVars>>
    /\ UNCHANGED nonLibVars

\* Close: w.cancel()
CloseCancel ==
    /\ closePc = "cancel"
    /\ wCancelled' = TRUE
    /\ closePc' = "done"
    /\ UNCHANGED <<wBuffer, wQueue, wClosed, wPc, wMsg, handled, handledBy, enqueued,
                   tryRes, nextMsg>>
    /\ UNCHANGED <<lib, historyVars, quorumVars, callVars, runnerVars>>
    /\ UNCHANGED nonLibVars

\* NewWorker(cfg): the queue has cfg.Buffer places, the goroutines are started
NewWorker ==
    /\ wBuffer \in 0..MaxBuffer
    /\ wQueue = <<>>
    /\ wClosed = FALSE
    /\ wCancelled = FALSE
    /\ wPc = [w \in WorkerIds |-> "select"]
    /\ wMsg = [w \in WorkerIds |-> NilMsg]
    /\ handled = {}
    /\ handledBy = [m \in Msgs |-> <<>>]
    /\ enqueued = {}
    /\ tryRes = "none"
    /\ closePc = "idle"
    /\ nextMsg = 1

WorkerInit ==
    /\ ControllerInit /\ InstanceNew("none", "none") /\ NetworkNew({})
    /\ ShareNone /\ LusNone /\ FutureNew /\ HistoryNone /\ QuorumNone /\ CallNone /\ RunnerNone
    /\ NewWorker

WorkerNext ==
    \/ TryEnqueue
    \/ \E w \in WorkerIds : startWorker(w)
    \/ \E w \in WorkerIds : process(w)
    \/ CloseQueue
    \/ CloseCancel

SpecWorker == WorkerInit /\ [][WorkerNext]_vars

\* the goroutines started by init() are scheduled: one that can take a step
\* of its loop for ever takes it
WorkerFairness ==
    \A w \in WorkerIds : WF_vars(startWorker(w)) /\ WF_vars(process(w))

SpecWorkerFair == WorkerInit /\ [][WorkerNext]_vars /\ WorkerFairness

------------------------------------------------------------------------------
(***************************************************************************)
(* The DecidedHistory request handler.  Heights are unsigned integers of   *)
(* HeightBits bits (64 in the code); int() reads the same bits as signed.  *)
(***************************************************************************)
HeightBits == 4
MaxBatchSize == 2
HeightModulus == 2 ^ HeightBits
HistoryHeights == 0..(HeightModulus - 1)
StoredHeights == {0, 1, 2, 3, HeightModulus - 1}

\* int(x) of an unsigned x
ToInt(x) == IF x >= HeightModulus \div 2 THEN x - HeightModulus ELSE x

\* the stored heights of S in ascending order
RECURSIVE InOrder(_)
InOrder(S) ==
    IF S = {} THEN <<>>
    ELSE LET lo == CHOOSE x \in S : \A y \in S : x <= y
         IN  <<lo>> \o InOrder(S \ {lo})

\* store.GetInstancesInRange(id, from, to): the decided messages of the
\* persisted instances with from <= height <= to, in ascending height
GetInstancesInRange(from, to) == InOrder({h \in histStore : from <= h /\ h <= to})

\* sm.UpdateResults(nil, results...)
UpdateResults(params, results) ==
    IF Len(results) = 0
    THEN [status |-> "NotFound", data |-> <<>>, params |-> params]
    ELSE [status |-> "Success", data |-> results,
          params |-> IF Len(results) > 1
                     THEN <<results[1], results[Len(results)]>>
                     ELSE <<results[1]>>]

\* the handler returned by HistoryHandler, for a DecidedHistory request
HistoryHandlerResult(from, to) ==
    LET items == ToInt((to - from) % HeightModulus)
        upto  == IF items > MaxBatchSize THEN (from + MaxBatchSize) % HeightModulus ELSE to
    IN  UpdateResults(<<from, upto>>, GetInstancesInRange(from, upto))

HistoryHandler(from, to) ==
    /\ histReq' = <<from, to>>
    /\ histRes' = HistoryHandlerResult(from, to)
    /\ UNCHANGED histStore
    /\ UNCHANGED <<lib, workerVars, quorumVars, callVars, runnerVars>>
    /\ UNCHANGED nonLibVars

HistoryInit ==
    /\ ControllerInit /\ InstanceNew("none", "none") /\ NetworkNew({})
    /\ ShareNone /\ LusNone /\ FutureNew /\ WorkerNone /\ QuorumNone /\ CallNone /\ RunnerNone
    /\ histStore \in SUBSET StoredHeights
    /\ histReq = <<0, 0>>
    /\ histRes = NoHistory

HistoryNext == \E from \in HistoryHeights, to \in HistoryHeights : HistoryHandler(from, to)

SpecHistory == HistoryInit /\ [][HistoryNext]_vars

------------------------------------------------------------------------------
(***************************************************************************)
(* quorum(committee) of the scenario tests.                                *)
(***************************************************************************)
MaxCommittee == 128

\* func quorum(committee int) int { return (committee*2 + 1) / 3 }
quorum(committee) == (committee * 2 + 1) \div 3

CallQuorum(committee) ==
    /\ quorumArg' = committee
    /\ quorumRet' = quorum(committee)
    /\ UNCHANGED <<lib, workerVars, historyVars, callVars, runnerVars>>
    /\ UNCHANGED nonLibVars

QuorumInit ==
    /\ ControllerInit /\ InstanceNew("none", "none") /\ NetworkNew({})
    /\ ShareNone /\ LusNone /\ FutureNew /\ WorkerNone /\ HistoryNone
    /\ QuorumNone /\ CallNone /\ RunnerNone

QuorumNext == \E committee \in 1..MaxCommittee : CallQuorum(committee)

SpecQuorum == QuorumInit /\ [][QuorumNext]_vars

------------------------------------------------------------------------------
(***************************************************************************)
(* Justify on the round changes of a proposal, listed in two orders.       *)
(***************************************************************************)
JustifyRound == 2
JustifyPrepared == {NotPrepared, <<1, "v1">>, <<1, "v2">>}
\* one round change of each of the operators 1..Quorum, prepared or not
JustifyRoundChanges ==
    {[k \in 1..Quorum |-> RoundChangeMsg(JustifyRound, <<k>>, pc[k][1], pc[k][2])] :
        pc \in [1..Quorum -> JustifyPrepared]}
JustifyPrepares == {<<>>, PrepareQuorum(1, "v1"), PrepareQuorum(1, "v2")}
Listings == {p \in [1..Quorum -> 1..Quorum] : \A i, j \in 1..Quorum : p[i] = p[j] => i = j}

\* Justify(share, state, round, roundChanges, prepares, proposedValue), and
\* the same call with the round changes listed in the order p
CallJustify(roundChanges, p, prepares, proposedValue) ==
    /\ \E relisted \in {[k \in 1..Quorum |-> roundChanges[p[k]]]} :
        /\ justifyArg' = [roundChanges |-> roundChanges, relisted |-> relisted,
                          prepares |-> prepares, proposedValue |-> proposedValue]
        /\ justifyRet' = <<Justify(FirstHeight, JustifyRound, roundChanges, prepares,
                                   proposedValue),
                           Justify(FirstHeight, JustifyRound, relisted, prepares,
                                   proposedValue)>>
    /\ UNCHANGED <<aggregateArg, aggregateRet>>
    /\ UNCHANGED <<lib, workerVars, historyVars, quorumVars, runnerVars>>
    /\ UNCHANGED nonLibVars

JustifyInit ==
    /\ ControllerInit /\ InstanceNew("none", "none") /\ NetworkNew({})
    /\ ShareNone /\ LusNone /\ FutureNew /\ WorkerNone /\ HistoryNone
    /\ QuorumNone /\ CallNone /\ RunnerNone

JustifyNext ==
    \E roundChanges \in JustifyRoundChanges, p \in Listings, prepares \in JustifyPrepares,
       proposedValue \in Values :
        CallJustify(roundChanges, p, prepares, proposedValue)

SpecJustify == JustifyInit /\ [][JustifyNext]_vars

------------------------------------------------------------------------------
(***************************************************************************)
(* aggregateCommitMsgs called on one commit, on two commits and on the     *)
(* same two in the other order.                                            *)
(***************************************************************************)
AggregateInputs ==
    {CommitMsg(r, v, sg) : r \in 1..JustifyRound, v \in Values, sg \in LusSignerLists}

\* one call per behaviour: the function keeps no state between calls
CallAggregate(a, b) ==
    /\ aggregateArg = NoCall
    /\ aggregateArg' = <<a, b>>
    /\ aggregateRet' = [one |-> aggregateCommitMsgs(<<a>>),
                        ab |-> aggregateCommitMsgs(<<a, b>>),
                        ba |-> aggregateCommitMsgs(<<b, a>>)]
    /\ UNCHANGED <<justifyArg, justifyRet>>
    /\ UNCHANGED <<lib, workerVars, historyVars, quorumVars, runnerVars>>
    /\ UNCHANGED nonLibVars

AggregateInit ==
    /\ ControllerInit /\ InstanceNew("none", "none") /\ NetworkNew({})
    /\ ShareNone /\ LusNone /\ FutureNew /\ WorkerNone /\ HistoryNone
    /\ QuorumNone /\ CallNone /\ RunnerNone

AggregateNext == \E a, b \in AggregateInputs : CallAggregate(a, b)

SpecAggregate == AggregateInit /\ [][AggregateNext]_vars

------------------------------------------------------------------------------
(***************************************************************************)
(* The duty runner and the round timers it registers.                      *)
(***************************************************************************)
MaxRunnerHeight == 2
MaxExpiries == 3

\* a duty starts: the runner takes a new state, without a running instance
RunnerStartDuty ==
    /\ rDuty' = TRUE
    /\ rInstance' = NoRunning
    /\ UNCHANGED <<rHeight, rTimers, rLast>>
    /\ UNCHANGED <<lib, workerVars, historyVars, quorumVars, callVars>>
    /\ UNCHANGED nonLibVars

\* the duty's consensus starts: the controller's next height, the instance
\* becomes the running one, registerTimeoutHandler(instance, height)
RunnerStartInstance ==
    /\ rDuty /\ rInstance = NoRunning
    /\ \E h \in {IF rTimers = {} THEN FirstHeight ELSE rHeight + 1} :
        /\ h <= MaxRunnerHeight
        /\ rHeight' = h
        /\ rInstance' = [height |-> h, round |-> FirstRound, decided |-> FALSE]
        /\ rTimers' = rTimers \cup {h}
    /\ UNCHANGED <<rDuty, rLast>>
    /\ UNCHANGED <<lib, workerVars, historyVars, quorumVars, callVars>>
    /\ UNCHANGED nonLibVars

\* the running instance decides
RunnerDecided ==
    /\ rInstance # NoRunning /\ ~rInstance.decided
    /\ rInstance' = [rInstance EXCEPT !.decided = TRUE]
    /\ UNCHANGED <<rHeight, rDuty, rTimers, rLast>>
    /\ UNCHANGED <<lib, workerVars, historyVars, quorumVars, callVars>>
    /\ UNCHANGED nonLibVars

\* the duty ends
RunnerFinishDuty ==
    /\ rDuty
    /\ rDuty' = FALSE
    /\ UNCHANGED <<rHeight, rInstance, rTimers, rLast>>
    /\ UNCHANGED <<lib, workerVars, historyVars, quorumVars, callVars>>
    /\ UNCHANGED nonLibVars

\* the function onTimeout(h) returns, run when the timer registered for
\* height h expires; instance.UponRoundTimeout() moves to the next round
RunnerOnTimeout(h) ==
    /\ h \in rTimers
    /\ rLast.n < MaxExpiries
    /\ rLast' = [h |-> h, n |-> rLast.n + 1]
    /\ IF ~rDuty /\ rHeight = h THEN UNCHANGED rInstance
       ELSE IF rInstance = NoRunning THEN UNCHANGED rInstance
       ELSE IF rInstance.decided THEN UNCHANGED rInstance
       ELSE rInstance' = [rInstance EXCEPT !.round = @ + 1]
    /\ UNCHANGED <<rHeight, rDuty, rTimers>>
    /\ UNCHANGED <<lib, workerVars, historyVars, quorumVars, callVars>>
    /\ UNCHANGED nonLibVars

RunnerInit ==
    /\ ControllerInit /\ InstanceNew("none", "none") /\ NetworkNew({})
    /\ ShareNone /\ LusNone /\ FutureNew /\ WorkerNone /\ HistoryNone
    /\ QuorumNone /\ CallNone /\ RunnerNone

RunnerNext ==
    \/ RunnerStartDuty
    \/ RunnerStartInstance
    \/ RunnerDecided
    \/ RunnerFinishDuty
    \/ \E h \in 0..MaxRunnerHeight : RunnerOnTimeout(h)

SpecRunner == RunnerInit /\ [][RunnerNext]_vars

(***************************************************************************)
(* Claims about the controller (checked under SpecController).             *)
(***************************************************************************)
\* C5: controller.height never decreases: every step leaves the controller's
\* height greater than or equal to what it was.
C5_HeightNeverDecreases == [][height' >= height]_vars

\* the error StartInstance is to return in a lifecycle state other than Ready
C7_ExpectedError(state) ==
    CASE state = "notStarted" -> "controller hasn't initialized yet. current state - notStarted"
      [] state = "initiatedHandlers" -> "controller hasn't initialized yet. current state - initiatedHandlers"
      [] state = "syncedChangedRound" -> "controller hasn't initialized yet. current state - syncedChangedRound"
      [] state = "waitingForPeers" -> "controller hasn't initialized yet. current state - waitingForPeers"
      [] state = "foundPeers" -> "controller hasn't initialized yet. current state - foundPeers"
      [] state = "forking" -> "forking in progress"
      [] OTHER -> "nil"

\* C7: StartInstance is accepted only while the lifecycle state is Ready; in
\* every other state the call returns the state's error ("controller hasn't
\* initialized yet. current state - <state>", or "forking in progress" in
\* Forking), creates no instance and leaves the controller height unchanged.
C7_StartOnlyWhenReady ==
    [][\A p \in Starters :
        (sPc[p] = "idle" /\ sPc'[p] # "idle" /\ State # "ready") =>
            /\ sPc'[p] = "done"
            /\ sErr'[p] = C7_ExpectedError(State)
            /\ sRes'[p] = "nil"
            /\ height' = height
            /\ currentInstance' = currentInstance
            /\ instStage' = instStage]_vars

\* C7 witness: one call was rejected during a fork and another before the
\* controller finished initialising
C7_Witness ==
    \E p, q \in Starters :
        /\ sPc[p] = "done" /\ sErr[p] = "forking in progress"
        /\ sPc[q] = "done"
        /\ sErr[q] = "controller hasn't initialized yet. current state - foundPeers"

\* C8: StartInstance(height) is accepted only when height is the last decided
\* height + 1, or 0 when nothing has been decided; in Ready any other height is
\* rejected with "instance seq invalid" and no instance is started.
C8_SequenceChecked ==
    [][\A p \in Starters :
        (sPc[p] = "idle" /\ sPc'[p] # "idle") =>
            LET h == sHeight'[p]
                next == \/ decidedStore = {} /\ h = 0
                        \/ decidedStore # {} /\ h = Max(decidedStore) + 1
            IN  /\ sPc'[p] = "setHeight" => next
                /\ (State = "ready" /\ ~next) =>
                    /\ sPc'[p] = "done"
                    /\ sErr'[p] = "instance seq invalid"
                    /\ height' = height
                    /\ currentInstance' = currentInstance
                    /\ instStage' = instStage]_vars

\* C8 witness: with decided heights 0..1 stored, one call skipped ahead or
\* repeated a decided height and was rejected, another started height 2
C8_Witness ==
    \E p, q \in Starters :
        /\ decidedStore = {0, 1}
        /\ sPc[p] = "done" /\ sErr[p] = "instance seq invalid" /\ sHeight[p] # 2
        /\ sPc[q] \notin {"idle", "done"} /\ sHeight[q] = 2 /\ sErr[q] = "nil"

\* C9: at most one consensus instance runs for a controller at any time, under
\* any interleaving of concurrent StartInstance calls: no two instances started
\* by StartInstance are running (started and not yet in a terminal state).
C9_AtMostOneRunning ==
    Cardinality({p \in Starters : instStage[p] = "running"}) <= 1

(***************************************************************************)
(* Claims about one instance.                                              *)
(***************************************************************************)
\* the commit container holds, for one round, commits with data v whose
\* pairwise-disjoint signer sets together contain 2f+1 distinct signers
C2_CommitQuorumHeld(v) ==
    LET c == ContainersMap["commit"] IN
    \E r \in Rounds :
        \E T \in SUBSET {k \in DOMAIN c : c[k].round = r /\ c[k].data = v} :
            /\ \A i, j \in T :
                  i # j => Range(c[i].signers) \cap Range(c[j].signers) = {}
            /\ Cardinality(UNION {Range(c[k].signers) : k \in T}) >= 2 * F + 1

\* C2: the instance has set its decided message, or moved to the Decided
\* stage, for value v only if its commit container holds for one round commits
\* with data v whose pairwise-disjoint signer sets contain at least 2f+1
\* distinct signers, and the aggregated decided message carries at least 2f+1
\* signers.
C2_DecidedOnlyOnCommitQuorum ==
    (decidedMsg # NoMsg \/ Stage = "decided") =>
        /\ decidedMsg.type = "commit"
        /\ C2_CommitQuorumHeld(decidedMsg.data)
        /\ Cardinality(Range(decidedMsg.signers)) >= 2 * F + 1

\* C2 witness: decided while the container also holds a commit of the decided
\* round for the other value
C2_Witness ==
    /\ decidedMsg # NoMsg /\ Stage = "decided"
    /\ \E k \in DOMAIN ContainersMap["commit"] :
          /\ ContainersMap["commit"][k].round = decidedMsg.round
          /\ ContainersMap["commit"][k].data # decidedMsg.data

\* C4: commit aggregation runs at most once: once set, the decided message
\* (and so the decided value) never changes, and the Decided stage is
\* signalled at most once, whatever commits are delivered afterwards.
C4_AggregatesOnce ==
    [][/\ decidedMsg # NoMsg => decidedMsg' = decidedMsg
       /\ decidedSignals' <= 1
       /\ decidedSignals' >= decidedSignals]_vars

\* C4 witness: after deciding on three commits, a fourth commit of the decided
\* round and value was delivered and processed by the other goroutine
C4_Witness ==
    /\ decidedMsg # NoMsg /\ decidedSignals = 1
    /\ \A d \in Deliverers : pipelinePc[d] = NoMsg
    /\ Len(decidedMsg.signers) = Quorum
    /\ Len(longestUniqueSignersForRoundAndValue(ContainersMap["commit"],
               decidedMsg.round, decidedMsg.data)[1]) = CommitteeSize

\* the justification the claim asks of a stored proposal m of a round above 1
C3_Justified(m) ==
    LET validRC == {k \in DOMAIN m.rcj :
                        /\ m.rcj[k].type = "roundchange"
                        /\ m.rcj[k].height = m.height
                        /\ m.rcj[k].round = m.round
                        /\ Range(m.rcj[k].signers) \subseteq Operators}
        validPrepares(r) == {k \in DOMAIN m.pj :
                                /\ m.pj[k].type = "prepare"
                                /\ m.pj[k].height = m.height
                                /\ m.pj[k].round = r
                                /\ m.pj[k].data = m.data
                                /\ Range(m.pj[k].signers) \subseteq Operators}
    IN  /\ Cardinality(UNION {Range(m.rcj[k].signers) : k \in validRC}) >= 2 * F + 1
        /\ \/ \A k \in DOMAIN m.rcj : m.rcj[k].pr = NoRound /\ m.rcj[k].pv = NoValue
           \/ \E hp \in DOMAIN m.rcj :
                /\ m.rcj[hp].pr # NoRound
                /\ \A k \in DOMAIN m.rcj : m.rcj[k].pr <= m.rcj[hp].pr
                /\ m.data = m.rcj[hp].pv
                /\ Cardinality(UNION {Range(m.pj[k].signers) :
                                        k \in validPrepares(m.rcj[hp].pr)}) >= 2 * F + 1

\* C3: every proposal of a round above 1 that the instance has stored (in its
\* proposal container or as the accepted proposal) came with a quorum of valid
\* round changes of its round and either none of them prepared, or its value is
\* that of a highest-prepared round change and a quorum of valid prepares for
\* that prepared round and value came with it.
C3_StoredProposalsJustified ==
    /\ \A k \in DOMAIN ContainersMap["proposal"] :
          ContainersMap["proposal"][k].round > 1 => C3_Justified(ContainersMap["proposal"][k])
    /\ (ProposalAcceptedForCurrentRound # NoMsg /\ ProposalAcceptedForCurrentRound.round > 1)
          => C3_Justified(ProposalAcceptedForCurrentRound)

\* C3 witness: a stored round-2 proposal whose round changes are not prepared
\* and an accepted round-3 proposal whose round changes report two prepared
\* rounds
C3_Witness ==
    /\ \E k \in DOMAIN ContainersMap["proposal"] :
          /\ ContainersMap["proposal"][k].round = 2
          /\ \A j \in DOMAIN ContainersMap["proposal"][k].rcj :
                ContainersMap["proposal"][k].rcj[j].pr = NoRound
    /\ ProposalAcceptedForCurrentRound.round = 3
    /\ \E i, j \in DOMAIN ProposalAcceptedForCurrentRound.rcj :
          /\ ProposalAcceptedForCurrentRound.rcj[i].pr = 1
          /\ ProposalAcceptedForCurrentRound.rcj[j].pr = 2

\* C6: instance.round never decreases: every step, whichever message or timer
\* expiry it handles, leaves the round greater than or equal to what it was.
C6_RoundNeverDecreases == [][Round' >= Round]_vars

\* C6 witness: a proposal validated in round 2 was handled by UponProposalMsg
\* after the timer had moved the instance to round 3
C6_Witness ==
    /\ Round = 3
    /\ ProposalAcceptedForCurrentRound.round = 2
    /\ Stage = "proposal"

\* C1: in one instance with at most f faulty operators, no two honest
\* operators ever decide different values; in particular once a quorum of
\* 2f+1 honest operators has decided a value, every honest operator that has
\* decided has decided that value.
C1_DecidedValue(n) == nDecided[n].data
C1_Agreement ==
    /\ \A n, m \in Honest :
          nDecided[n] # NoMsg /\ nDecided[m] # NoMsg
              => C1_DecidedValue(n) = C1_DecidedValue(m)
    /\ \A v \in Values :
          Cardinality({n \in Honest : nDecided[n] # NoMsg /\ C1_DecidedValue(n) = v})
                >= Quorum
              => \A m \in Honest : nDecided[m] # NoMsg => C1_DecidedValue(m) = v
\* witness: 2f+1 honest operators have decided, one of them in round 1 and
\* another only after a round change, in round 2
C1_Witness ==
    /\ Cardinality(byz) = F
    /\ Cardinality({n \in Honest : nDecided[n] # NoMsg}) >= Quorum
    /\ \E n, m \in Honest :
          /\ nDecided[n] # NoMsg /\ nDecided[n].round = 1
          /\ nDecided[m] # NoMsg /\ nDecided[m].round = 2

\* C10: with four honest operators and timely delivery, once the round-1
\* leader proposes its value v at height 0, every operator eventually has
\* decided v at height 0 in round 1 and has saved a decided message with at
\* least three signers.
C10_Stored(n) ==
    /\ nDecided[n] # NoMsg
    /\ nRound[n] = FirstRound
    /\ nStored[n] # NoMsg
    /\ nStored[n].type = "commit"
    /\ nStored[n].height = FirstHeight
    /\ nStored[n].round = FirstRound
    /\ nStored[n].data = StartValue(RoundLeader(FirstHeight, FirstRound))
    /\ Cardinality(Range(nStored[n].signers)) >= 3
C10_HappyPath == <>(\A n \in Operators : C10_Stored(n))
C10_Witness ==
    /\ byz = {}
    /\ RoundLeader(FirstHeight, FirstRound) = 1
    /\ \A n \in Operators : C10_Stored(n)

\* C11: when operators 3 and 4 start one round timeout late, so that the
\* round-1 proposal gathers no quorum before the timers of 1 and 2 expire,
\* every operator eventually has decided at height 0 in round 2, and the
\* round-2 proposal it accepted is signed by operator 2 alone.
C11_DecidedInRoundTwo(n) ==
    /\ nDecided[n] # NoMsg
    /\ nDecided[n].height = FirstHeight
    /\ nDecided[n].round = 2
    /\ Cardinality(Range(nDecided[n].signers)) >= Quorum
C11_AcceptedFromLeaderTwo(n) ==
    /\ nRound[n] = 2
    /\ nAccepted[n] # NoMsg
    /\ nAccepted[n].round = 2
    /\ nAccepted[n].signers = <<2>>
C11_CommittedInRoundTwo(n) == \E v \in Values : CommitMsg(2, v, <<n>>) \in sent
C12_LeaderInvalid == "proposal leader invalid"
C12_WrongLeader(m) ==
    /\ m.type = "proposal"
    /\ m.height = FirstHeight
    /\ Len(m.signers) = 1
    /\ m.signers # <<RoundLeader(FirstHeight, m.round)>>
C12_Rejected ==
    /\ \A m \in ProposalUniverse :
          C12_WrongLeader(m)
              => proposalMsgValidationPipeline(ProposalAcceptedForCurrentRound, Round,
                                               FirstHeight, m) = C12_LeaderInvalid
    /\ \A k \in DOMAIN ContainersMap["proposal"] :
          ~C12_WrongLeader(ContainersMap["proposal"][k])
    /\ ~C12_WrongLeader(ProposalAcceptedForCurrentRound)
    /\ \A d \in Deliverers : ~C12_WrongLeader(pipelinePc[d])
C12_RejectionChangesNothing ==
    \A d \in Deliverers :
        proposalErr'[d] = C12_LeaderInvalid /\ proposalErr[d] # C12_LeaderInvalid
            => UNCHANGED <<ContainersMap, ProposalAcceptedForCurrentRound, Round, Stage,
                           PreparedRound, PreparedValue, decidedMsg, pipelinePc>>
C12_WrongLeaderRejected == []C12_Rejected /\ [][C12_RejectionChangesNothing]_vars
\* witness: committee of four, round 1, a proposal signed by operator 2 was
\* handed to the pipeline of a fresh instance
C12_Witness ==
    /\ proposalErr["d1"] = C12_LeaderInvalid
    /\ ContainersMap["proposal"] = <<>>
    /\ ProposalAcceptedForCurrentRound = NoMsg
    /\ Round = FirstRound
    /\ Stage = "notStarted"
    /\ \E m \in ProposalInputs : m.round = 1 /\ m.signers = <<2>>

\* C13: a well-formed, authorised and justified proposal from the leader of
\* a round above the current round of a running, undecided instance passes
\* the validation pipeline in every state (and is then recorded as accepted,
\* with the round bumped, by UponProposalMsg).
C13_Running == Stage \in {"proposal", "prepare", "changeRound"} /\ decidedMsg = NoMsg
C13_JustifiedFromLeader(m) ==
    /\ m.type = "proposal"
    /\ m.height = FirstHeight
    /\ m.signers = <<RoundLeader(FirstHeight, m.round)>>
    /\ m.data # NoValue
    /\ Justify(FirstHeight, m.round, m.rcj, m.pj, m.data) = ErrNil
C13_FutureProposalAccepted ==
    C13_Running =>
        \A m \in ProposalUniverse :
            C13_JustifiedFromLeader(m) /\ m.round > Round
                => proposalMsgValidationPipeline(ProposalAcceptedForCurrentRound, Round,
                                                 FirstHeight, m) = ErrNil

\* C14: handling the same signed message a second time leaves the instance
\* exactly as the first handling left it: in every reachable state and for
\* every message, running its pipeline twice gives the state that running it
\* once gives, and no container holds two entries of one round with the
\* same signer set.
C14_OneEntryPerSignerSet ==
    \A t \in MsgTypes : \A i, j \in DOMAIN ContainersMap[t] :
        /\ ContainersMap[t][i].round = ContainersMap[t][j].round
        /\ Range(ContainersMap[t][i].signers) = Range(ContainersMap[t][j].signers)
        => i = j
C17_ShareQuorums ==
    share # NoShare /\ share.err = ErrNil =>
        LET f == (Cardinality(share.Committee) - 1) \div 3
        IN  share.Quorum = 2 * f + 1 /\ share.PartialQuorum = f + 1

\* the stored messages of the container that match the call's round and value
LusMatching == {i \in DOMAIN lusContainer :
                  lusContainer[i].round = lusRet.round /\ lusContainer[i].data = lusRet.value}
LusDisjoint(I) ==
    \A i, j \in I : i # j =>
        Range(lusContainer[i].signers) \cap Range(lusContainer[j].signers) = {}
LusCovered(I) == Cardinality(UNION {Range(lusContainer[i].signers) : i \in I})

\* C15: the messages longestUniqueSignersForRoundAndValue returns are a
\* largest pairwise-disjoint collection of matching messages: no other
\* pairwise-disjoint selection of matching messages covers more signers.
C15_LargestSelection ==
    lusRet # NoRet =>
        \A I \in SUBSET LusMatching :
            LusDisjoint(I) => LusCovered(I) <= Len(lusRet.signers)

\* C16: the result is well formed: no signer twice, the signers are those of
\* the returned messages, every returned message is a stored message of the
\* round and value, a matching message gives a non-empty result; of exactly
\* two matching messages both are returned when their signers are disjoint
\* and one of the largest size alone when they overlap.
C16_TwoMatching ==
    \A i, j \in LusMatching :
        i < j /\ LusMatching = {i, j} =>
            IF LusDisjoint({i, j})
            THEN Range(lusRet.signers) =
                    Range(lusContainer[i].signers) \cup Range(lusContainer[j].signers)
            ELSE /\ Len(lusRet.msgs) = 1
                 /\ lusRet.msgs[1] \in {lusContainer[i], lusContainer[j]}
                 /\ Len(lusRet.msgs[1].signers) >= Len(lusContainer[i].signers)
                 /\ Len(lusRet.msgs[1].signers) >= Len(lusContainer[j].signers)
C16_WellFormed ==
    lusRet # NoRet =>
        /\ \A a, b \in DOMAIN lusRet.signers : lusRet.signers[a] = lusRet.signers[b] => a = b
        /\ Range(lusRet.signers) = UNION {Range(lusRet.msgs[k].signers) : k \in DOMAIN lusRet.msgs}
        /\ \A k \in DOMAIN lusRet.msgs :
              \E i \in LusMatching : lusContainer[i] = lusRet.msgs[k]
        /\ LusMatching # {} => Len(lusRet.msgs) >= 1
        /\ C16_TwoMatching
\* results for two disjoint aggregated messages and for two overlapping ones
C16_Witness ==
    /\ lusRet # NoRet
    /\ Len(lusContainer) = 3
    /\ Cardinality(LusMatching) = 2
    /\ ~LusDisjoint(LusMatching)
    /\ \E i, j \in LusMatching : Len(lusContainer[i].signers) < Len(lusContainer[j].signers)
    /\ Len(lusRet.signers) = 2

\* signers whose buffered height is above the local height
FutureHigher(container, localHeight) ==
    {signer \in DOMAIN container : container[signer] > localHeight}

\* C18: handling a future message triggers SyncHighestDecided exactly when
\* the message adds a signer to those buffered above the local height and
\* they are then at least f+1; with fewer than f+1 of them it never does.
C18_Handled == Height' = Height
C18_SyncStep ==
    C18_Handled =>
        LET before == Cardinality(FutureHigher(FutureMsgsContainer, Height))
            after == Cardinality(FutureHigher(FutureMsgsContainer', Height'))
        IN  /\ futureRes' = "SyncHighestDecided" => after >= F + 1
            /\ futureRes' = "SyncHighestDecided" <=> (after > before /\ after >= F + 1)
C18_SyncAtPartialQuorum == [][C18_SyncStep]_vars
\* a sync triggered by the message of the (f+1)-th signer
C18_Witness ==
    /\ futureRes = "SyncHighestDecided"
    /\ Cardinality(FutureHigher(FutureMsgsContainer, Height)) = F + 1
    /\ Height > 0

\* C19: a valid future message from a signer that already has a buffered
\* entry overwrites it: afterwards the signer's entry holds the height of
\* the new message.
C19_OverwriteStep ==
    /\ C18_Handled
    /\ validateFutureMsg(futureMsg') = ErrNil
    /\ futureMsg'.signers[1] \in DOMAIN FutureMsgsContainer
    => /\ futureMsg'.signers[1] \in DOMAIN FutureMsgsContainer'
       /\ FutureMsgsContainer'[futureMsg'.signers[1]] = futureMsg'.height
C19_NewerOverwrites == [][C19_OverwriteStep]_vars

\* C20: buffered signers are committee members, so the buffer never holds
\* more entries than the committee has operators, and right after an insert
\* every buffered height is above the local height.
C20_InsertStep ==
    C18_Handled /\ futureRes' \in {ErrNil, "SyncHighestDecided"} =>
        \A signer \in DOMAIN FutureMsgsContainer' : FutureMsgsContainer'[signer] > Height'
C20_BufferBounded ==
    /\ [](/\ DOMAIN FutureMsgsContainer \subseteq Operators
          /\ Cardinality(DOMAIN FutureMsgsContainer) <= CommitteeSize)
    /\ [][C20_InsertStep]_vars
\* a buffer with an entry for every operator, each sent more than once
C20_Witness ==
    /\ DOMAIN FutureMsgsContainer = Operators
    /\ futureRes = "discarded future msg"
    /\ Height > 0

\* C21: from its first statement to its return OnFork keeps the controller
\* in Forking, so that StartInstance is refused with "forking in progress",
\* and when it returns the controller is Ready with no current instance.
C21_InOnFork == fPc \in {"stop", "nil", "clean"}
C21_ForkingThroughout ==
    C21_InOnFork => State = Forking /\ canStartNewInstance(FirstHeight) = ErrForking

\* C22: every change of the controller's lifecycle state is a step of the
\* initialisation order, a rollback to SyncedChangeRound after a failed peer
\* wait or sync, or a step between Ready and Forking.
C22_Allowed ==
    {<<NotStarted, InitiatedHandlers>>, <<InitiatedHandlers, SyncedChangeRound>>,
     <<SyncedChangeRound, WaitingForPeers>>, <<WaitingForPeers, FoundPeers>>,
     <<FoundPeers, Ready>>, <<WaitingForPeers, SyncedChangeRound>>,
     <<FoundPeers, SyncedChangeRound>>, <<Ready, Forking>>, <<Forking, Ready>>}
C22_LifecycleOrder == [][State' # State => <<State, State'>> \in C22_Allowed]_vars

\* C23: an Init call that began while another Init call was in progress,
\* and returns while that call is still in progress, returns AlreadyRunning.
C23_Returns(p) == iPc[p] # "done" /\ iPc'[p] = "done"
C23_OtherInProgress(p) ==
    \E q \in Initers \ {p} : iPc[q] \notin {"idle", "done"} /\ iPc'[q] = iPc[q]
C23_LaterInitAlreadyRunning ==
    [][\A p \in Initers :
          C23_Returns(p) /\ iConcurrent[p] /\ C23_OtherInProgress(p)
              => iErr'[p] = ErrAlreadyRunning]_vars

\* C24: when an instance of height h exits without having decided, the
\* queue afterwards holds what it held before without the messages of this
\* identifier and a height <= h that are neither commits nor partial
\* signatures of height h.
C24_ExitsUndecided(p) ==
    /\ sPc[p] = "after" /\ sPc'[p] = "done"
    /\ instStage[p] # "notStarted"
    /\ ~(sRes[p] = "decided" /\ sErr[p] = ErrNil)
C24_PurgeUpToExitedHeight ==
    [][\A p \in Starters :
          C24_ExitsUndecided(p) => Q' = {k \in Q : ~Purged(k, instHeight[p])}]_vars

\* C25: StartInstance returns Decided = true only after the aggregated commit
\* of its own instance has been written to decided storage, and the message
\* it returns is the stored decided message of the started height.
C25_Returned(p) == sRes[p] # "decided" /\ sRes'[p] = "decided"
C25_DecidedAfterSave ==
    [][\A p \in Starters :
          C25_Returned(p) => /\ HasDecidedMsg(instStage[p])
                             /\ instHeight[p] = sHeight[p]
                             /\ sHeight[p] \in decidedStore]_vars

\* C26: a TryEnqueue call returns true or false: true exactly when the
\* message was taken (into the buffer or by a waiting goroutine), false,
\* with the queue unchanged, when the queue has no room.
C26_Called == nextMsg' = nextMsg + 1
C26_Taken ==
    \/ wQueue' = Append(wQueue, nextMsg)
    \/ \E w \in WorkerIds : wMsg'[w] = nextMsg /\ wPc'[w] = "process" /\ wPc[w] = "select"
C26_TryEnqueueStep ==
    C26_Called =>
        /\ tryRes' \in {"true", "false"}
        /\ tryRes' = "true" <=> C26_Taken
        /\ Len(wQueue) >= wBuffer /\ ~(\E w \in WorkerIds : wPc[w] = "select")
              => tryRes' = "false" /\ wQueue' = wQueue
C26_TryEnqueueNeverBlocks == [][C26_TryEnqueueStep]_vars

\* C27: the handler is invoked only with messages TryEnqueue accepted,
\* never with nil.
C27_HandledWereEnqueued == handled \subseteq enqueued

\* C28: a DecidedHistory response to [from, to] holds at most
\* MaxBatchSize + 1 decided messages, all of heights from..from+MaxBatchSize,
\* in ascending height.
C28_Served == histRes # NoHistory
C28_BatchClamped ==
    C28_Served =>
        /\ Len(histRes.data) <= MaxBatchSize + 1
        /\ \A i \in 1..Len(histRes.data) :
              /\ histReq[1] <= histRes.data[i]
              /\ histRes.data[i] <= histReq[1] + MaxBatchSize
        /\ \A i \in 1..(Len(histRes.data) - 1) : histRes.data[i] < histRes.data[i + 1]

\* C29: quorum(N) for N = 1..13 is 1, 2, 3, 3, 4, 5, 5, 6, 7, 7, 8, 9, 9.
C29_Table == <<1, 2, 3, 3, 4, 5, 5, 6, 7, 7, 8, 9, 9>>
C29_QuorumTable == quorumArg \in 1..13 => quorumRet = C29_Table[quorumArg]

\* C30: a prepare is stored, and the prepared round and value set, only
\* while a proposal is accepted for the current round and the prepare
\* carries that proposal's value; a run rejected with 'no proposal accepted
\* for prepare' or 'message data is different from proposed data' leaves
\* the prepare container and the prepared state unchanged.
C30_NoProposal == "no proposal accepted for prepare"
C30_OtherData == "message data is different from proposed data"
C30_Unchanged ==
    /\ ContainersMap'["prepare"] = ContainersMap["prepare"]
    /\ PreparedRound' = PreparedRound
    /\ PreparedValue' = PreparedValue
C30_Rejected(m) ==
    LET err == ValidateProposal(ProposalAcceptedForCurrentRound, m)
    IN  /\ ProposalAcceptedForCurrentRound = NoMsg => err = C30_NoProposal
        /\ /\ ProposalAcceptedForCurrentRound # NoMsg
           /\ m.data # ProposalAcceptedForCurrentRound.data
           => err = C30_OtherData
C30_Step ==
    /\ \A m \in PrepareInputs : C30_Rejected(m)
    /\ ~C30_Unchanged =>
          /\ ProposalAcceptedForCurrentRound # NoMsg
          /\ \E m \in PrepareInputs :
                /\ ContainersMap'["prepare"] = AddMessage(ContainersMap["prepare"], m)
                /\ m.round = Round
                /\ m.data = ProposalAcceptedForCurrentRound.data
          /\ PreparedValue' \in {PreparedValue, ProposalAcceptedForCurrentRound.data}
    /\ \A d \in Deliverers :
          prepareErr'[d] # prepareErr[d] =>
              /\ ProposalAcceptedForCurrentRound = NoMsg => prepareErr'[d] # ErrNil
              /\ prepareErr'[d] # ErrNil => C30_Unchanged
C31_Called == justifyArg # NoCall
C31_Tied ==
    LET rcs == justifyArg.roundChanges
        prepared == {k \in DOMAIN rcs : Prepared(rcs[k])}
        top == {k \in prepared : \A j \in prepared : rcs[j].pr <= rcs[k].pr}
    IN  /\ Cardinality(top) > 1
        /\ \E k \in top :
              /\ rcs[k].pv = justifyArg.proposedValue
              /\ justifyArg.prepares = PrepareQuorum(rcs[k].pr, rcs[k].pv)
C31_TieAnyOrder ==
    C31_Called =>
        /\ justifyRet[1] = justifyRet[2]
        /\ C31_Tied => justifyRet[1] = "nil"

\* C32: the expiry of the timer registered for height h changes the
\* running instance only if it is of height h and undecided, and then
\* moves it to the next round.
C32_Expired == rLast'.n = rLast.n + 1
C32_TimerStep ==
    C32_Expired /\ rInstance' # rInstance =>
        /\ rInstance # NoRunning
        /\ ~rInstance.decided
        /\ rInstance.height = rLast'.h
        /\ rInstance' = [rInstance EXCEPT !.round = @ + 1]
C33_Returned == fPc = "done"
C33_QueuedDecidedHandled == C33_Returned => forkQueued \subseteq handledDecided
C33_Witness == C33_Returned /\ forkQueued # {}

\* C34: a message accepted by TryEnqueue is passed to the handler at most
\* once, and, unless the worker is closed, it is eventually passed to the
\* handler by exactly one worker
C34_AtMostOnce == \A m \in Msgs : Len(handledBy[m]) <= 1
C34_Done(m) == Len(handledBy[m]) = 1 \/ wClosed
C34_AcceptedHandledOnce ==
    /\ [](C34_AtMostOnce /\ \A m \in Msgs : handledBy[m] # <<>> => m \in enqueued)
    /\ \A m \in Msgs : (m \in enqueued) ~> C34_Done(m)
\* C34 witness: with the worker open, two accepted messages were handled once
\* each, by different workers, and a third waits in the buffer
C34_Witness ==
    /\ ~wClosed
    /\ \E m1, m2 \in enqueued :
          /\ m1 # m2
          /\ Len(handledBy[m1]) = 1 /\ Len(handledBy[m2]) = 1
          /\ handledBy[m1] # handledBy[m2]
    /\ wQueue # <<>>

\* C35: aggregating the one-element list [m] yields m, and aggregating
\* [a, b] yields the same content and the same set of signers as [b, a]
C35_Called == aggregateArg # NoCall
C35_Same(x, y) == GetRoot(x) = GetRoot(y) /\ Range(x.signers) = Range(y.signers)
C36_NotValid == "proposal is not valid with current state"
C36_AcceptedRounds == {prepareSent[k].proposal : k \in DOMAIN prepareSent}
C36_Rejected(m) ==
    LET err == proposalMsgValidationPipeline(ProposalAcceptedForCurrentRound, Round,
                                             FirstHeight, m)
    IN  /\ err # ErrNil
        /\ ValidateProposalMsg(NoMsg, m.round, FirstHeight, m) = ErrNil => err = C36_NotValid
C36_OnePerRound(sq, key(_)) ==
    \A j, k \in DOMAIN sq : key(sq[j]) = key(sq[k]) => j = k
C36_OneProposalPerRound ==
    /\ \A m \in ProposalUniverse : m.round \in C36_AcceptedRounds => C36_Rejected(m)
    /\ LET round(x) == x.round
           proposal(x) == x.proposal
       IN  /\ C36_OnePerRound(ContainersMap["proposal"], round)
           /\ C36_OnePerRound(prepareSent, round)
           /\ C36_OnePerRound(prepareSent, proposal)
\* C36 witness: a proposal of round 2 was accepted after one of round 1, and
\* the last proposal handed in was refused for the state
C36_Witness ==
    /\ Len(prepareSent) = 2
    /\ prepareSent[1].proposal = 1 /\ prepareSent[2].proposal = 2
    /\ proposalErr["d1"] = C36_NotValid

\* C37: whenever StartInstance has returned and no other StartInstance call
\* is in progress, the controller holds no current instance
C37_NoneInProgress == \A q \in Starters : sPc[q] \in {"idle", "done"}
C37_Returned == \E p \in Starters : sPc[p] = "done"
C37_NoCurrentAfterReturn ==
    C37_Returned /\ C37_NoneInProgress => currentInstance = NoInstance

\* C38: a StartInstance call that has returned gave its caller a decided
\* result or an error, never neither
C38_ResultOrError ==
    \A p \in Starters : sPc[p] = "done" => sRes[p] = "decided" \/ sErr[p] # ErrNil

\* C39: while an Init call is still in its handler initialisation (between
\* the first compare-and-swap and the end of setInitialHeight), no Init call
\* waits for peers or syncs the decided history
C39_InHandlerInit(p) == iPc[p] \in {"known", "initHeight"}
C39_WaitingOrSyncing(q) == iPc[q] \in {"wait", "sync"}
C39_HandlersBeforePeers ==
    \A p, q \in Initers : ~(C39_InHandlerInit(p) /\ C39_WaitingOrSyncing(q))

\* C40: whenever no Init call and no OnFork call is in progress, the
\* controller is Ready or in a state from which a new Init call goes on to
\* the peer wait and the sync (NotStarted, InitiatedHandlers,
\* SyncedChangeRound)
C40_Quiet ==
    /\ \A p \in Initers : iPc[p] \in {"idle", "done"}
    /\ fPc \in {"idle", "done"}
====
